---------------------------- MODULE Spec2Model ----------------------------
(***************************************************************************)
(* Model of the phonotaxis state-machine core:                             *)
(*   - StateMatrix  (src/phonotaxis/statematrix.py): the name-based        *)
(*     builder of the transition matrix, state timers and output           *)
(*     directives;                                                         *)
(*   - StateMachine (src/phonotaxis/statemachine.py): the runtime that     *)
(*     executes a matrix;                                                  *)
(*   - Dispatcher.set_state_matrix (src/phonotaxis/dispatcher.py), which   *)
(*     loads a builder into the runtime.                                   *)
(*                                                                         *)
(* Python lists are sequences: list index i is sequence position i+1.      *)
(* Pure methods are operators from an object record to an object record;   *)
(* one action per public operation applies them.                           *)
(***************************************************************************)
EXTENDS Integers, Sequences, FiniteSets, TLC

VARIABLES
    sm,             \* the StateMatrix object (builder)
    state_machine,  \* the StateMachine object (runtime)
    emitted,        \* Qt signals emitted by the last operation, in order
    last_call,      \* name of the last operation called
    raised,         \* exception raised by the last operation, "" if none
    ret,            \* value returned by the last builder finalizer
    n_add,          \* number of add_state calls made by the user so far
    named,          \* <<state name, event column>> pairs that the transitions
                    \* of a task's add_state calls set (history, Spec only)
    since_stop      \* stop() has returned and no state was entered since (history)

vars == <<sm, state_machine, emitted, last_call, raised, ret, n_add, named, since_stop>>

(***************************************************************************)
(* Program constants                                                       *)
(***************************************************************************)
\* float('inf'): larger than every finite duration used
INFINITE_TIME == 1000000
NOCHANGE == -1

(***************************************************************************)
(* Bounds and input sets                                                   *)
(***************************************************************************)
\* most add_state calls the user makes on one builder (SpecBuilder)
MaxAddState == 2

\* constructor arguments of the StateMatrix: one input port, two outputs
inputs_dict == ("p" :> 0)
outputs_dict == ("v" :> 0) @@ ("w" :> 1)

\* the state names in play; START is created by the constructor
Names == {"START", "A", "B", "END"}
\* names the user passes to add_state as `name`
UserNames == {"A", "B", "END"}
\* <<statetimer, outputsOn, outputsOff, serialOut>> as the user of a bare
\* builder passes them to add_state (SpecBuilder): the defaults, a timed
\* state that turns an output on and sends a serial byte, a timed state
\* that turns an output off
TimerOutputArgs ==
    {<<INFINITE_TIME, {}, {}, 0>>, <<2, {"v"}, {}, 3>>, <<2, {}, {"w"}, 0>>}
\* durations a task passes as `statetimer` (Spec)
TimerValues == {2, INFINITE_TIME}

(***************************************************************************)
(* Python list indexing, negative indices included                         *)
(***************************************************************************)
PyIndex(l, i) == IF i < 0 THEN Len(l) + i + 1 ELSE i + 1

ListGet(l, i) == l[PyIndex(l, i)]

ListSet(l, i, v) == [l EXCEPT ![PyIndex(l, i)] = v]

\* n*[v]
Repeat(n, v) == [k \in 1..n |-> v]

(***************************************************************************)
(* StateMatrix.__init__: the event columns                                 *)
(***************************************************************************)
\* An event name key+'in' / key+'out' is the pair <<key, suffix>>;
\* 'Tup' and 'Forced' are <<"Tup", "">> and <<"Forced", "">>.
Tup == <<"Tup", "">>
Forced == <<"Forced", "">>

InputEventNames == {<<k, s>> : k \in DOMAIN inputs_dict, s \in {"in", "out"}}

EventNames == InputEventNames \cup {Tup, Forced}

events_dict ==
    [en \in EventNames |->
        IF en = Forced THEN -1
        ELSE IF en = Tup THEN Cardinality(InputEventNames)
        ELSE IF en[2] = "in" THEN 2 * inputs_dict[en[1]]
        ELSE 2 * inputs_dict[en[1]] + 1]

n_input_events == Cardinality(InputEventNames) + 1

n_outputs == Cardinality(DOMAIN outputs_dict)

(***************************************************************************)
(* StateMatrix: construction                                               *)
(***************************************************************************)
\* variant: a default row that sends every event to state 0
make_default_row_to_start(b, state_ind) ==
    Repeat(n_input_events + Len(b.extra_timers_names), 0)

make_default_row(b, state_ind) ==
    Repeat(n_input_events + Len(b.extra_timers_names), state_ind)

RECURSIVE extend_lists(_, _)
extend_lists(b, state_ind) ==
    IF Len(b.state_matrix) <= state_ind
    THEN extend_lists([b EXCEPT !.state_matrix = Append(@, <<>>),
                                !.state_timers = Append(@, INFINITE_TIME),
                                !.state_outputs = Append(@, Repeat(n_outputs, NOCHANGE)),
                                !.serial_outputs = Append(@, 0)],
                      state_ind)
    ELSE b

\* variant: the index counter is not advanced
append_state_to_list_same_ind(b, state_name) ==
    LET state_ind == b.next_state_ind
        b1 == [b EXCEPT !.states = [n \in DOMAIN b.states \cup {state_name} |->
                                       IF n = state_name THEN state_ind ELSE b.states[n]]]
        b2 == extend_lists(b1, state_ind)
    IN  [b2 EXCEPT !.state_matrix = ListSet(@, state_ind, make_default_row(b2, state_ind))]

append_state_to_list(b, state_name) ==
    LET state_ind == b.next_state_ind
        b1 == [b EXCEPT !.states = [n \in DOMAIN b.states \cup {state_name} |->
                                       IF n = state_name THEN state_ind ELSE b.states[n]],
                        !.next_state_ind = @ + 1]
        b2 == extend_lists(b1, state_ind)
    IN  [b2 EXCEPT !.state_matrix = ListSet(@, state_ind, make_default_row(b2, state_ind))]

\* the position (1-based) of x in the list l
RECURSIVE list_index(_, _)
list_index(l, x) == IF Head(l) = x THEN 1 ELSE 1 + list_index(Tail(l), x)

\* self.events_dict[event_name]: the entries the constructor made, and one
\* entry <<name, "">> for every extra timer, in the order they were added
event_column(b, event_name) ==
    IF event_name \in DOMAIN events_dict
    THEN events_dict[event_name]
    ELSE n_input_events + list_index(b.extra_timers_names, event_name[1]) - 1

\* the loop over transitions.items(); items is the sequence of
\* <<event_name, target_state_name>> pairs in the dict's order
RECURSIVE add_transitions(_, _, _)
add_transitions(b, new_row, items) ==
    IF items = <<>>
    THEN [sm |-> b, new_row |-> new_row]
    ELSE LET event_name == Head(items)[1]
             target_state_name == Head(items)[2]
             b1 == IF target_state_name \notin DOMAIN b.states
                   THEN append_state_to_list(b, target_state_name)
                   ELSE b
             target_state_ind == b1.states[target_state_name]
         IN  add_transitions(b1,
                             ListSet(new_row, event_column(b1, event_name), target_state_ind),
                             Tail(items))

\* variant: outputsOn and outputsOff change places
output_directives_inverted(outputsOn, outputsOff) ==
    [k \in 1..n_outputs |->
        IF \E o \in outputsOn : outputs_dict[o] = k - 1 THEN 0
        ELSE IF \E o \in outputsOff : outputs_dict[o] = k - 1 THEN 1
        ELSE NOCHANGE]

\* the output directives of a state: NOCHANGE, then 1 for outputsOn,
\* then 0 for outputsOff
output_directives(outputsOn, outputsOff) ==
    [k \in 1..n_outputs |->
        IF \E o \in outputsOff : outputs_dict[o] = k - 1 THEN 0
        ELSE IF \E o \in outputsOn : outputs_dict[o] = k - 1 THEN 1
        ELSE NOCHANGE]

\* variant: the transitions are added to the row the state already has
add_state_additive(b, name, statetimer, transitions, outputsOn, outputsOff, serialOut) ==
    LET b1 == IF name \notin DOMAIN b.states
              THEN append_state_to_list(b, name)
              ELSE b
        this_state_ind == b1.states[name]
        r == add_transitions(b1, ListGet(b1.state_matrix, this_state_ind), transitions)
        b2 == r.sm
    IN  [b2 EXCEPT !.state_matrix = ListSet(@, this_state_ind, r.new_row),
                   !.state_timers = ListSet(@, this_state_ind, statetimer),
                   !.state_outputs = ListSet(@, this_state_ind,
                                             output_directives(outputsOn, outputsOff)),
                   !.serial_outputs = ListSet(@, this_state_ind, serialOut)]

add_state(b, name, statetimer, transitions, outputsOn, outputsOff, serialOut) ==
    LET b1 == IF name \notin DOMAIN b.states
              THEN append_state_to_list(b, name)
              ELSE b
        this_state_ind == b1.states[name]
        r == add_transitions(b1, make_default_row(b1, this_state_ind), transitions)
        b2 == r.sm
    IN  [b2 EXCEPT !.state_matrix = ListSet(@, this_state_ind, r.new_row),
                   !.state_timers = ListSet(@, this_state_ind, statetimer),
                   !.state_outputs = ListSet(@, this_state_ind,
                                             output_directives(outputsOn, outputsOff)),
                   !.serial_outputs = ListSet(@, this_state_ind, serialOut)]

force_transition(b, origin_state_id, destination_state_id) ==
    [b EXCEPT !.state_matrix =
        ListSet(@, origin_state_id,
                ListSet(ListGet(b.state_matrix, origin_state_id),
                        events_dict[Tup], destination_state_id))]

init_mat(b) ==
    force_transition(add_state(b, "START", 0, <<>>, {}, {}, 0), 0, 1)

\* StateMatrix(inputs=inputs_dict, outputs=outputs_dict)
StateMatrix_init ==
    init_mat([state_matrix |-> <<>>,
              state_timers |-> <<>>,
              state_outputs |-> <<>>,
              serial_outputs |-> <<>>,
              states |-> <<>>,
              next_state_ind |-> 0,
              extra_timers_names |-> <<>>,
              extra_timers_duration |-> <<>>,
              extra_timers_triggers |-> <<>>])

\* _add_extratimer(name, duration): the builder it leaves behind and
\* whether it raised
add_extratimer(b, name, duration) ==
    IF name \in {b.extra_timers_names[k] : k \in 1..Len(b.extra_timers_names)}
    THEN [sm |-> b, raised |-> TRUE]
    ELSE [sm |-> [b EXCEPT !.extra_timers_names = Append(@, name),
                           !.extra_timers_duration = Append(@, duration),
                           !.extra_timers_triggers = Append(@, 0)],
          raised |-> FALSE]

\* the loop over extratimers of the constructor
RECURSIVE add_extratimers(_, _)
add_extratimers(b, extratimers) ==
    IF extratimers = <<>> THEN b
    ELSE add_extratimers(add_extratimer(b, Head(extratimers), 0).sm, Tail(extratimers))

\* StateMatrix(inputs=inputs_dict, outputs=outputs_dict, extratimers=extratimers)
StateMatrix_init_extratimers(extratimers) ==
    init_mat(add_extratimers([state_matrix |-> <<>>,
                              state_timers |-> <<>>,
                              state_outputs |-> <<>>,
                              serial_outputs |-> <<>>,
                              states |-> <<>>,
                              next_state_ind |-> 0,
                              extra_timers_names |-> <<>>,
                              extra_timers_duration |-> <<>>,
                              extra_timers_triggers |-> <<>>],
                             extratimers))

\* set_extratimer(name, duration)
set_extratimer(b, name, duration) ==
    IF name \notin {b.extra_timers_names[k] : k \in 1..Len(b.extra_timers_names)}
    THEN [sm |-> b, raised |-> TRUE]
    ELSE [sm |-> [b EXCEPT !.extra_timers_duration =
                      ListSet(@, list_index(b.extra_timers_names, name) - 1, duration)],
          raised |-> FALSE]

\* the loop over trigger at the end of add_state
RECURSIVE bind_triggers(_, _, _)
bind_triggers(b, this_state_ind, trigger) ==
    IF trigger = <<>> THEN b
    ELSE bind_triggers(
             [b EXCEPT !.extra_timers_triggers =
                  ListSet(@, list_index(b.extra_timers_names, Head(trigger)) - 1,
                          this_state_ind)],
             this_state_ind, Tail(trigger))

\* add_state(name, statetimer, transitions, outputsOn, trigger=trigger)
add_state_trigger(b, name, statetimer, transitions, outputsOn, trigger) ==
    LET b1 == add_state(b, name, statetimer, transitions, outputsOn, {}, 0)
    IN  bind_triggers(b1, b1.states[name], trigger)

\* the loop over transitions.items() with event names that events_dict
\* may lack: the builder and row so far, and whether the lookup raised
RECURSIVE add_transitions_raising(_, _, _)
add_transitions_raising(b, new_row, items) ==
    IF items = <<>>
    THEN [sm |-> b, new_row |-> new_row, raised |-> FALSE]
    ELSE LET event_name == Head(items)[1]
             target_state_name == Head(items)[2]
             b1 == IF target_state_name \notin DOMAIN b.states
                   THEN append_state_to_list(b, target_state_name)
                   ELSE b
             target_state_ind == b1.states[target_state_name]
         IN  IF /\ event_name \notin DOMAIN events_dict
                /\ event_name[1] \notin {b.extra_timers_names[k] :
                                            k \in 1..Len(b.extra_timers_names)}
             THEN [sm |-> b1, new_row |-> new_row, raised |-> TRUE]
             ELSE add_transitions_raising(
                      b1, ListSet(new_row, event_column(b1, event_name), target_state_ind),
                      Tail(items))

\* one of the loops over outputsOn and outputsOff, the lists of output
\* names given in order: the directives so far, and whether
\* outputs_dict[one_output] raised
RECURSIVE set_outputs_raising(_, _, _)
set_outputs_raising(row, outputs, value) ==
    IF outputs = <<>> THEN [row |-> row, raised |-> FALSE]
    ELSE IF Head(outputs) \notin DOMAIN outputs_dict
    THEN [row |-> row, raised |-> TRUE]
    ELSE set_outputs_raising(ListSet(row, outputs_dict[Head(outputs)], value),
                             Tail(outputs), value)

\* the loop over trigger with names that extra_timers_names may lack
RECURSIVE bind_triggers_raising(_, _, _)
bind_triggers_raising(b, this_state_ind, trigger) ==
    IF trigger = <<>> THEN [sm |-> b, raised |-> ""]
    ELSE IF Head(trigger) \notin {b.extra_timers_names[k] :
                                      k \in 1..Len(b.extra_timers_names)}
    THEN [sm |-> b, raised |-> "ValueError"]
    ELSE bind_triggers_raising(
             [b EXCEPT !.extra_timers_triggers =
                  ListSet(@, list_index(b.extra_timers_names, Head(trigger)) - 1,
                          this_state_ind)],
             this_state_ind, Tail(trigger))

\* add_state, from the assignment of serial_outputs on
add_state_raising_serial(b, this_state_ind, serialOut, trigger) ==
    bind_triggers_raising([b EXCEPT !.serial_outputs = ListSet(@, this_state_ind, serialOut)],
                          this_state_ind, trigger)

\* add_state, from the loop over outputsOff on
add_state_raising_off(b, this_state_ind, outputsOff, serialOut, trigger) ==
    LET off == set_outputs_raising(ListGet(b.state_outputs, this_state_ind), outputsOff, 0)
        b1 == [b EXCEPT !.state_outputs = ListSet(@, this_state_ind, off.row)]
    IN  IF off.raised THEN [sm |-> b1, raised |-> "KeyError"]
        ELSE add_state_raising_serial(b1, this_state_ind, serialOut, trigger)

\* add_state, from the update of the state properties on
add_state_raising_update(b, this_state_ind, new_row, statetimer, outputsOn, outputsOff, serialOut, trigger) ==
    LET on == set_outputs_raising(Repeat(n_outputs, NOCHANGE), outputsOn, 1)
        b1 == [b EXCEPT !.state_matrix = ListSet(@, this_state_ind, new_row),
                        !.state_timers = ListSet(@, this_state_ind, statetimer),
                        !.state_outputs = ListSet(@, this_state_ind, on.row)]
    IN  IF on.raised THEN [sm |-> b1, raised |-> "KeyError"]
        ELSE add_state_raising_off(b1, this_state_ind, outputsOff, serialOut, trigger)

\* add_state(name, statetimer, transitions, outputsOn, outputsOff, trigger,
\* serialOut) with names that may be unknown: the builder it leaves behind
\* and the exception it raised
add_state_raising(b, name, statetimer, transitions, outputsOn, outputsOff, serialOut, trigger) ==
    LET b1 == IF name \notin DOMAIN b.states
              THEN append_state_to_list(b, name)
              ELSE b
        this_state_ind == b1.states[name]
        r == add_transitions_raising(b1, make_default_row(b1, this_state_ind), transitions)
    IN  IF r.raised THEN [sm |-> r.sm, raised |-> "KeyError"]
        ELSE add_state_raising_update(r.sm, this_state_ind, r.new_row, statetimer,
                                      outputsOn, outputsOff, serialOut, trigger)

\* get_extra_timers()
get_extra_timers(b) == b.extra_timers_duration

\* get_extra_triggers()
get_extra_triggers(b) == b.extra_timers_triggers

\* variant: the START state is left as the constructor made it
reset_transitions_but_start(b) ==
    LET inds == {b.states[n] : n \in DOMAIN b.states} \ {0}
    IN  [b EXCEPT !.state_matrix = [k \in 1..Len(@) |->
                        IF k - 1 \in inds THEN make_default_row(b, k - 1) ELSE @[k]],
                  !.state_timers = [k \in 1..Len(@) |->
                        IF k - 1 \in inds THEN INFINITE_TIME ELSE @[k]],
                  !.state_outputs = [k \in 1..Len(@) |->
                        IF k - 1 \in inds THEN Repeat(n_outputs, NOCHANGE) ELSE @[k]]]

reset_transitions(b) ==
    LET inds == {b.states[n] : n \in DOMAIN b.states}
    IN  [b EXCEPT !.state_matrix = [k \in 1..Len(@) |->
                        IF k - 1 \in inds THEN make_default_row(b, k - 1) ELSE @[k]],
                  !.state_timers = [k \in 1..Len(@) |->
                        IF k - 1 \in inds THEN INFINITE_TIME ELSE @[k]],
                  !.state_outputs = [k \in 1..Len(@) |->
                        IF k - 1 \in inds THEN Repeat(n_outputs, NOCHANGE) ELSE @[k]]]

(***************************************************************************)
(* StateMatrix: finalizers.  Each returns the builder it leaves behind,    *)
(* the array it returns and whether it raised.                             *)
(***************************************************************************)
\* variant: a state named END is appended whether or not one exists
ensure_end_state_always(b) == append_state_to_list(b, "END")

\* variant: no END state is created
ensure_end_state_never(b) == b

ensure_end_state(b) ==
    IF "END" \notin DOMAIN b.states
    THEN add_state(b, "END", INFINITE_TIME, <<>>, {}, {}, 0)
    ELSE b

get_matrix(b) ==
    LET b1 == ensure_end_state(b)
        matrix_array == b1.state_matrix
        n_states == Len(matrix_array)
        \* np.array raises ValueError on rows of different lengths
        ragged == \E s \in 1..n_states : Len(matrix_array[s]) # Len(matrix_array[1])
        invalid == \/ ragged
                   \/ \E s \in 1..n_states : \E c \in 1..Len(matrix_array[s]) :
                          matrix_array[s][c] < 0 \/ matrix_array[s][c] >= n_states
    IN  [sm |-> b1, raised |-> invalid, value |-> IF invalid THEN <<>> ELSE matrix_array]

\* the rows of l whose state exists (has a non-empty matrix row)
RECURSIVE existing_rows(_, _, _)
existing_rows(b, l, i) ==
    IF i > Len(l) THEN <<>>
    ELSE IF i <= Len(b.state_matrix) /\ b.state_matrix[i] # <<>>
         THEN <<l[i]>> \o existing_rows(b, l, i + 1)
         ELSE existing_rows(b, l, i + 1)

get_outputs(b) ==
    LET b1 == ensure_end_state(b)
        outputs_array == existing_rows(b1, b1.state_outputs, 1)
        invalid == \E s \in 1..Len(outputs_array) : \E c \in 1..Len(outputs_array[s]) :
                       outputs_array[s][c] \notin {-1, 0, 1}
    IN  [sm |-> b1, raised |-> invalid, value |-> IF invalid THEN <<>> ELSE outputs_array]

get_state_timers(b) ==
    LET b1 == ensure_end_state(b)
    IN  [sm |-> b1, raised |-> FALSE, value |-> existing_rows(b1, b1.state_timers, 1)]

get_timer_event_index(b) == events_dict[Tup]


(***************************************************************************)
(* StateMachine.  An attribute that may be None is a sequence of length    *)
(* at most one: None is <<>> and a value x is <<x>>.                       *)
(* Every method returns the object it leaves behind, the signals it        *)
(* emitted and the exception it raised ("" when it returned normally).     *)
(* state_timer_active is state_timer.isActive(); state_timer_for records,  *)
(* while the timer is pending, the state that was current when             *)
(* state_timer.start() was called.                                         *)
(***************************************************************************)
None == <<>>

Some(x) == <<x>>

Result(m, signals, exception) ==
    [state_machine |-> m, emitted |-> signals, raised |-> exception]

\* the arguments of the signals; a bool argument is the integer Python
\* compares it equal to
eventProcessed(eventIndex, newState) ==
    [signal |-> "eventProcessed", a |-> eventIndex, b |-> newState]

outputChanged(outputIndex, value) ==
    [signal |-> "outputChanged", a |-> outputIndex, b |-> IF value THEN 1 ELSE 0]

integerOutput(value) ==
    [signal |-> "integerOutput", a |-> value, b |-> 0]

stateChanged(newStateIndex) ==
    [signal |-> "stateChanged", a |-> newStateIndex, b |-> 0]

StateMachine_init ==
    [state_matrix |-> None,
     state_timers |-> None,
     state_outputs |-> None,
     integer_outputs |-> None,
     timer_event_index |-> None,
     num_states |-> 0,
     num_inputs |-> 0,
     num_outputs |-> 0,
     current_state |-> 0,
     is_running |-> FALSE,
     output_states |-> <<>>,
     state_timer_active |-> FALSE,
     state_timer_for |-> None]

is_configured(m) ==
    /\ m.state_matrix # None
    /\ m.state_outputs # None
    /\ m.state_timers # None

\* number of elements of a 2-D array
ArraySize(arr) == IF arr = <<>> THEN 0 ELSE Len(arr) * Len(arr[1])

\* set_state_matrix, from the initialisation of the state timers on
set_state_matrix_timers(m) ==
    IF m.state_timers = None
    THEN [m EXCEPT !.state_timers = Some(Repeat(m.num_states, INFINITE_TIME))]
    ELSE IF Len(m.state_timers[1]) # m.num_states
    THEN [m EXCEPT !.state_timers =
             Some([k \in 1..m.num_states |->
                     IF k <= Len(m.state_timers[1]) THEN m.state_timers[1][k]
                     ELSE INFINITE_TIME])]
    ELSE m

\* set_state_matrix, from the validation of the state indices on
set_state_matrix_validate(m, timer_event_index) ==
    IF \E s \in 1..Len(m.state_matrix[1]) : \E c \in 1..Len(m.state_matrix[1][s]) :
           \/ m.state_matrix[1][s][c] < 0
           \/ m.state_matrix[1][s][c] >= m.num_states
    THEN Result(m, <<>>, "ValueError")
    ELSE IF timer_event_index = None
    THEN Result(set_state_matrix_timers(
                    [m EXCEPT !.timer_event_index = Some(m.num_inputs - 1)]), <<>>, "")
    ELSE IF ~(0 <= timer_event_index[1] /\ timer_event_index[1] < m.num_inputs)
    THEN Result(m, <<>>, "ValueError")
    ELSE Result(set_state_matrix_timers(
                    [m EXCEPT !.timer_event_index = timer_event_index]), <<>>, "")

set_state_matrix(m, state_matrix, timer_event_index) ==
    IF m.is_running THEN Result(m, <<>>, "RuntimeError")
    ELSE IF ArraySize(state_matrix) = 0
    THEN Result([m EXCEPT !.state_matrix = Some(state_matrix)], <<>>, "ValueError")
    ELSE set_state_matrix_validate(
             [m EXCEPT !.state_matrix = Some(state_matrix),
                       !.num_states = Len(state_matrix),
                       !.num_inputs = Len(state_matrix[1])],
             timer_event_index)

set_state_timers(m, state_timers) ==
    IF m.is_running THEN Result(m, <<>>, "RuntimeError")
    ELSE IF m.state_matrix # None /\ Len(state_timers) # m.num_states
    THEN Result(m, <<>>, "ValueError")
    ELSE Result([m EXCEPT !.state_timers = Some(state_timers)], <<>>, "")

\* set_state_outputs, from the computation of num_outputs on
set_state_outputs_validate(m) ==
    IF \E s \in 1..Len(m.state_outputs[1]) : \E c \in 1..Len(m.state_outputs[1][s]) :
           m.state_outputs[1][s][c] \notin {-1, 0, 1}
    THEN Result(m, <<>>, "ValueError")
    ELSE Result([m EXCEPT !.output_states = Repeat(m.num_outputs, FALSE)], <<>>, "")

set_state_outputs(m, state_outputs) ==
    IF m.is_running THEN Result(m, <<>>, "RuntimeError")
    ELSE IF m.state_matrix # None /\ Len(state_outputs) # Len(m.state_matrix[1])
    THEN Result([m EXCEPT !.state_outputs = Some(state_outputs)], <<>>, "ValueError")
    ELSE set_state_outputs_validate(
             [m EXCEPT !.state_outputs = Some(state_outputs),
                       !.num_outputs = IF ArraySize(state_outputs) > 0
                                       THEN Len(state_outputs[1]) ELSE 0])

\* variant: the machine resumes in the state it was left in
start_resuming(m) ==
    IF ~is_configured(m) THEN Result(m, <<>>, "RuntimeError")
    ELSE Result([m EXCEPT !.is_running = TRUE], <<>>, "")

\* variant: the machine is placed in the first state
start_at_first(m) ==
    IF ~is_configured(m) THEN Result(m, <<>>, "RuntimeError")
    ELSE Result([m EXCEPT !.is_running = TRUE,
                          !.current_state = 0], <<>>, "")

start(m) ==
    IF ~is_configured(m) THEN Result(m, <<>>, "RuntimeError")
    ELSE Result([m EXCEPT !.is_running = TRUE,
                          !.current_state = m.num_states - 1], <<>>, "")

\* variant: the state timer is left pending
stop_keep_timer(m) ==
    Result([m EXCEPT !.is_running = FALSE], <<>>, "")

stop(m) ==
    Result([m EXCEPT !.is_running = FALSE,
                     !.state_timer_active = FALSE,
                     !.state_timer_for = None], <<>>, "")

\* reset: integer_outputs is not among the fields it clears
reset(m) ==
    Result([(IF m.is_running THEN stop(m).state_machine ELSE m) EXCEPT
                !.state_matrix = None,
                !.state_outputs = None,
                !.state_timers = None,
                !.timer_event_index = None,
                !.num_states = 0,
                !.num_inputs = 0,
                !.num_outputs = 0,
                !.current_state = 0,
                !.output_states = <<>>], <<>>, "")

\* variant: any directive other than 1 switches the output off
RECURSIVE process_state_outputs_else_off(_, _)
process_state_outputs_else_off(r, ind) ==
    LET m == r.state_machine
        state_output_config == ListGet(m.state_outputs[1], m.current_state)
    IN  IF ind >= Len(state_output_config) THEN r
        ELSE
        LET output_value == ListGet(state_output_config, ind)
            r1 == IF output_value = 1 /\ ~ListGet(m.output_states, ind)
                  THEN Result([m EXCEPT !.output_states = ListSet(@, ind, TRUE)],
                              Append(r.emitted, outputChanged(ind, TRUE)), "")
                  ELSE IF output_value # 1 /\ ListGet(m.output_states, ind)
                  THEN Result([m EXCEPT !.output_states = ListSet(@, ind, FALSE)],
                              Append(r.emitted, outputChanged(ind, FALSE)), "")
                  ELSE r
        IN  process_state_outputs_else_off(r1, ind + 1)

\* variant: an ON or OFF directive is applied and signalled without
\* comparing it with the current value of the output
RECURSIVE process_state_outputs_no_diff(_, _)
process_state_outputs_no_diff(r, ind) ==
    LET m == r.state_machine
        state_output_config == ListGet(m.state_outputs[1], m.current_state)
    IN  IF ind >= Len(state_output_config) THEN r
        ELSE
        LET output_value == ListGet(state_output_config, ind)
            r1 == IF output_value \in {0, 1}
                  THEN Result([m EXCEPT !.output_states = ListSet(@, ind, output_value = 1)],
                              Append(r.emitted, outputChanged(ind, output_value = 1)), "")
                  ELSE r
        IN  process_state_outputs_no_diff(r1, ind + 1)

\* the loop over enumerate(state_output_config), from position ind on;
\* r is the Result so far
RECURSIVE process_state_outputs_from(_, _)
process_state_outputs_from(r, ind) ==
    LET m == r.state_machine
        state_output_config == ListGet(m.state_outputs[1], m.current_state)
    IN  IF ind >= Len(state_output_config) THEN r
        ELSE
        LET output_value == ListGet(state_output_config, ind)
            \* output_states[ind] raises IndexError when output_states is
            \* shorter than the row of directives
            r1 == IF output_value \in {0, 1} /\ ind >= Len(m.output_states)
                  THEN Result(m, r.emitted, "IndexError")
                  ELSE IF output_value = 0 /\ ListGet(m.output_states, ind)
                  THEN Result([m EXCEPT !.output_states = ListSet(@, ind, FALSE)],
                              Append(r.emitted, outputChanged(ind, FALSE)), "")
                  ELSE IF output_value = 1 /\ ~ListGet(m.output_states, ind)
                  THEN Result([m EXCEPT !.output_states = ListSet(@, ind, TRUE)],
                              Append(r.emitted, outputChanged(ind, TRUE)), "")
                  ELSE r
        IN  IF r1.raised # "" THEN r1 ELSE process_state_outputs_from(r1, ind + 1)

\* state_outputs[current_state] raises IndexError when the outputs array
\* has fewer rows than the matrix has states
process_state_outputs(r) ==
    IF r.state_machine.state_outputs = None THEN r
    ELSE IF r.state_machine.current_state >= Len(r.state_machine.state_outputs[1])
    THEN Result(r.state_machine, r.emitted, "IndexError")
    ELSE process_state_outputs_from(r, 0)

process_integer_outputs(r) ==
    LET m == r.state_machine
    IN  IF m.integer_outputs = None THEN r
        ELSE LET iout == ListGet(m.integer_outputs[1], m.current_state)
             IN  IF iout # 0
                 THEN Result(m, Append(r.emitted, integerOutput(iout)), "")
                 ELSE r

\* state_timers[current_state] raises IndexError when state_timers is
\* shorter than the matrix has states
start_state_timer(r) ==
    LET m == r.state_machine
    IN  IF m.state_timers = None THEN r
        ELSE IF m.current_state >= Len(m.state_timers[1])
        THEN Result(m, r.emitted, "IndexError")
        ELSE LET timer_duration == ListGet(m.state_timers[1], m.current_state)
             IN  IF timer_duration # INFINITE_TIME /\ timer_duration >= 0
                 THEN Result([m EXCEPT !.state_timer_active = TRUE,
                                       !.state_timer_for = Some(m.current_state)],
                             r.emitted, "")
                 ELSE r

\* variant: stateChanged is emitted before the integer output
enter_state_timer_state_first(r) ==
    IF r.raised # "" THEN r
    ELSE IF start_state_timer(r).raised # "" THEN start_state_timer(r)
    ELSE process_integer_outputs(
             Result(start_state_timer(r).state_machine,
                    Append(r.emitted, stateChanged(r.state_machine.current_state)), ""))

\* _enter_state, after the outputs of the new state were processed
enter_state_timer(r) ==
    IF r.raised # "" THEN r
    ELSE IF start_state_timer(process_integer_outputs(r)).raised # ""
    THEN start_state_timer(process_integer_outputs(r))
    ELSE Result(start_state_timer(process_integer_outputs(r)).state_machine,
                Append(start_state_timer(process_integer_outputs(r)).emitted,
                       stateChanged(r.state_machine.current_state)), "")

\* variant: the timer of the state left is not stopped
enter_state_keep_timer(r, state_index) ==
    LET m == r.state_machine
    IN  IF ~(0 <= state_index /\ state_index < m.num_states)
        THEN Result(m, r.emitted, "ValueError")
        ELSE
        enter_state_timer(process_state_outputs(
            Result([m EXCEPT !.current_state = state_index], r.emitted, "")))

\* r is the Result so far: the signals already emitted by the caller
enter_state(r, state_index) ==
    LET m == r.state_machine
    IN  IF ~(0 <= state_index /\ state_index < m.num_states)
        THEN Result(m, r.emitted, "ValueError")
        ELSE
        enter_state_timer(process_state_outputs(
            Result([m EXCEPT !.current_state = state_index,
                             !.state_timer_active = FALSE,
                             !.state_timer_for = None], r.emitted, "")))

\* variant: a self-loop restarts the timer of the current state
process_event_rearm_self_loop(m, event_index) ==
    LET next_state == ListGet(ListGet(m.state_matrix[1], m.current_state), event_index)
        r == Result(m, <<eventProcessed(event_index, next_state)>>, "")
    IN  IF next_state # m.current_state THEN enter_state(r, next_state)
        ELSE start_state_timer(r)

\* variant: an event whose target is the current state is dropped silently
process_event_drop_self_loop(m, event_index) ==
    LET next_state == ListGet(ListGet(m.state_matrix[1], m.current_state), event_index)
        r == Result(m, <<eventProcessed(event_index, next_state)>>, "")
    IN  IF next_state # m.current_state THEN enter_state(r, next_state)
        ELSE Result(m, <<>>, "")

process_event(m, event_index) ==
    LET next_state == ListGet(ListGet(m.state_matrix[1], m.current_state), event_index)
        r == Result(m, <<eventProcessed(event_index, next_state)>>, "")
    IN  IF next_state # m.current_state THEN enter_state(r, next_state) ELSE r

\* variant: the configuration and the range are checked before is_running
process_input_validating_first(m, input_event) ==
    IF ~is_configured(m) THEN Result(m, <<>>, "RuntimeError")
    ELSE IF ~(0 <= input_event /\ input_event < m.num_inputs)
    THEN Result(m, <<>>, "ValueError")
    ELSE IF ~m.is_running THEN Result(m, <<>>, "")
    ELSE process_event(m, input_event)

process_input(m, input_event) ==
    IF ~m.is_running THEN Result(m, <<>>, "")
    ELSE IF ~is_configured(m) THEN Result(m, <<>>, "RuntimeError")
    ELSE IF ~(0 <= input_event /\ input_event < m.num_inputs)
    THEN Result(m, <<>>, "ValueError")
    ELSE process_event(m, input_event)

\* variant: the expired timer enters the target state on a path of its
\* own, without reporting the event
on_state_timer_expired_unreported(m) ==
    IF ~m.is_running \/ ~is_configured(m) THEN Result(m, <<>>, "")
    ELSE enter_state(Result(m, <<>>, ""),
                     ListGet(ListGet(m.state_matrix[1], m.current_state),
                             m.timer_event_index[1]))

\* the slot of the single-shot QTimer's timeout
on_state_timer_expired(m) ==
    IF ~m.is_running \/ ~is_configured(m) THEN Result(m, <<>>, "")
    \* with timer_event_index None the lookup yields no state index and
    \* eventProcessed.emit raises TypeError
    ELSE IF m.timer_event_index = None THEN Result(m, <<>>, "TypeError")
    ELSE process_event(m, m.timer_event_index[1])

\* variant: the forced transition is not reported as an event
force_state_unreported(m, state_index) ==
    IF ~is_configured(m) THEN Result(m, <<>>, "")
    ELSE
    LET index == IF state_index = -1 THEN m.num_states - 1 ELSE state_index
    IN  IF ~(0 <= index /\ index < m.num_states) THEN Result(m, <<>>, "ValueError")
        ELSE IF m.is_running /\ index # m.current_state
        THEN enter_state(Result(m, <<>>, ""), index)
        ELSE Result(m, <<>>, "")

\* variant: the state is entered whether or not the machine is running
force_state_when_stopped(m, state_index) ==
    IF ~is_configured(m) THEN Result(m, <<>>, "")
    ELSE
    LET index == IF state_index = -1 THEN m.num_states - 1 ELSE state_index
    IN  IF ~(0 <= index /\ index < m.num_states) THEN Result(m, <<>>, "ValueError")
        ELSE IF index # m.current_state
        THEN enter_state(Result(m, <<eventProcessed(-1, index)>>, ""), index)
        ELSE Result(m, <<>>, "")

force_state(m, state_index) ==
    IF ~is_configured(m) THEN Result(m, <<>>, "")
    ELSE
    LET index == IF state_index = -1 THEN m.num_states - 1 ELSE state_index
    IN  IF ~(0 <= index /\ index < m.num_states) THEN Result(m, <<>>, "ValueError")
        ELSE IF m.is_running /\ index # m.current_state
        THEN enter_state(Result(m, <<eventProcessed(-1, index)>>, ""), index)
        ELSE Result(m, <<>>, "")

\* variant: the output is written and signalled without comparing it
\* with its current value
force_output_always(m, output, value) ==
    IF ~is_configured(m) THEN Result(m, <<>>, "")
    ELSE IF ~(0 <= output /\ output < m.num_outputs) THEN Result(m, <<>>, "ValueError")
    ELSE Result([m EXCEPT !.output_states = ListSet(@, output, value)],
                <<outputChanged(output, value)>>, "")

force_output(m, output, value) ==
    IF ~is_configured(m) THEN Result(m, <<>>, "")
    ELSE IF ~(0 <= output /\ output < m.num_outputs) THEN Result(m, <<>>, "ValueError")
    ELSE IF ListGet(m.output_states, output) # value
    THEN Result([m EXCEPT !.output_states = ListSet(@, output, value)],
                <<outputChanged(output, value)>>, "")
    ELSE Result(m, <<>>, "")

set_integer_outputs(m, integer_outputs) ==
    Result([m EXCEPT !.integer_outputs = Some(integer_outputs)], <<>>, "")

set_state_timer(m, state, duration) ==
    IF ~is_configured(m) THEN Result(m, <<>>, "RuntimeError")
    ELSE IF ~(0 <= state /\ state < m.num_states) THEN Result(m, <<>>, "ValueError")
    ELSE IF state = m.current_state /\ m.is_running
    THEN start_state_timer(
             Result([m EXCEPT !.state_timers = Some(ListSet(@[1], state, duration))],
                    <<>>, ""))
    ELSE Result([m EXCEPT !.state_timers = Some(ListSet(@[1], state, duration))], <<>>, "")

(***************************************************************************)
(* The queries of the runtime: the value returned and the exception raised *)
(***************************************************************************)
Returned(value, exception) == [value |-> value, raised |-> exception]

\* variant: Python's negative indices are let through
get_output_state_negative(m, output) ==
    IF ~(-m.num_outputs <= output /\ output < m.num_outputs) \/ m.num_outputs = 0
    THEN Returned(None, "ValueError")
    ELSE Returned(Some(ListGet(m.output_states, output)), "")

get_output_state(m, output) ==
    IF ~(0 <= output /\ output < m.num_outputs) THEN Returned(None, "ValueError")
    ELSE Returned(Some(ListGet(m.output_states, output)), "")

get_transitions_from_state(m, state) ==
    IF ~is_configured(m) THEN Returned(None, "RuntimeError")
    ELSE IF ~(0 <= state /\ state < m.num_states) THEN Returned(None, "ValueError")
    ELSE Returned(Some(ListGet(m.state_matrix[1], state)), "")

get_transitions_for_input(m, input_event) ==
    IF ~is_configured(m) THEN Returned(None, "RuntimeError")
    ELSE IF ~(0 <= input_event /\ input_event < m.num_inputs)
    THEN Returned(None, "ValueError")
    ELSE Returned(Some([k \in 1..m.num_states |->
                           ListGet(m.state_matrix[1][k], input_event)]), "")

\* np.where(...)[0]: the indices of the matching rows, ascending
find_states_with_output(m, output, value) ==
    IF ~is_configured(m) THEN Returned(None, "RuntimeError")
    ELSE IF ~(0 <= output /\ output < m.num_outputs) THEN Returned(None, "ValueError")
    ELSE Returned(Some(SelectSeq([k \in 1..Len(m.state_outputs[1]) |-> k - 1],
                                LAMBDA state :
                                    ListGet(m.state_outputs[1][state + 1], output) =
                                        (IF value THEN 1 ELSE 0))), "")

\* the slot of the forceStateTransition signal
on_force_state_transition(m, state_index) ==
    IF ~is_configured(m) THEN Result(m, <<>>, "")
    ELSE IF ~(0 <= state_index /\ state_index < m.num_states) THEN Result(m, <<>>, "")
    ELSE IF m.is_running /\ state_index # m.current_state
    THEN enter_state(Result(m, <<>>, ""), state_index)
    ELSE Result(m, <<>>, "")

(***************************************************************************)
(* Dispatcher.set_state_matrix: load the builder into the runtime.         *)
(* Returns the builder and the runtime it leaves behind.                   *)
(***************************************************************************)
Loaded(b, m, exception) == [sm |-> b, state_machine |-> m, raised |-> exception]

\* after get_state_timers() returned g
Dispatcher_set_state_timers(g, m) ==
    Loaded(g.sm, set_state_timers(m, g.value).state_machine,
           set_state_timers(m, g.value).raised)

\* after set_state_outputs() returned r
Dispatcher_get_state_timers(b, r) ==
    IF r.raised # "" THEN Loaded(b, r.state_machine, r.raised)
    ELSE Dispatcher_set_state_timers(get_state_timers(b), r.state_machine)

\* after get_outputs() returned g
Dispatcher_set_state_outputs(g, m) ==
    IF g.raised THEN Loaded(g.sm, m, "ValueError")
    ELSE Dispatcher_get_state_timers(g.sm, set_state_outputs(m, g.value))

\* after set_state_matrix() returned r
Dispatcher_get_outputs(b, r) ==
    IF r.raised # "" THEN Loaded(b, r.state_machine, r.raised)
    ELSE Dispatcher_set_state_outputs(get_outputs(b), r.state_machine)

\* after get_matrix() returned g
Dispatcher_set_matrix(g, m) ==
    IF g.raised THEN Loaded(g.sm, m, "ValueError")
    ELSE Dispatcher_get_outputs(
             g.sm, set_state_matrix(m, g.value, Some(get_timer_event_index(g.sm))))

Dispatcher_set_state_matrix(b, m) == Dispatcher_set_matrix(get_matrix(b), m)

(***************************************************************************)
(* The inputs of the operations                                            *)
(***************************************************************************)
\* transitions dicts with at most one entry, as their items()
TransitionDictsTo(targets) ==
    {<<>>} \cup {<< <<e, t>> >> : e \in EventNames, t \in targets}

\* the event columns (0-based) that a transitions dict sets
named_columns(transitions) ==
    {PyIndex(Repeat(n_input_events, 0), events_dict[transitions[k][1]]) - 1 :
        k \in 1..Len(transitions)}

\* names used when a template is built for the runtime (Spec)
TemplateNames == {"START", "A", "END"}
TemplateUserNames == {"A"}

\* event, state and output indices passed to the runtime, one below and
\* one above the valid range included
EventArgs == -1..n_input_events
StateArgs == -1..Cardinality(TemplateNames)
OutputArgs == -1..n_outputs

\* the integer outputs of the three states of a template
IntegerOutputArgs == {<<0, 7, 0>>}

\* the transitions dicts of the trial templates of SpecControl
TrialTransitions == {<<>>, << <<Tup, "END">> >>, << <<<<"p", "in">>, "END">> >>}

(***************************************************************************)
(* Initial state: a fresh builder and a fresh, unconfigured runtime        *)
(***************************************************************************)
Init ==
    /\ sm = StateMatrix_init
    /\ state_machine = StateMachine_init
    /\ emitted = <<>>
    /\ last_call = "init"
    /\ raised = ""
    /\ ret = <<>>
    /\ n_add = 0
    /\ named = {}
    /\ since_stop = FALSE

(***************************************************************************)
(* Builder actions.  A template is assembled before it is loaded: the      *)
(* builder is called while the runtime holds no matrix.                    *)
(***************************************************************************)
Building == state_machine.state_matrix = None

BuilderReturns(name, exception) ==
    /\ last_call' = name
    /\ raised' = IF exception THEN "ValueError" ELSE ""
    /\ emitted' = <<>>
    /\ UNCHANGED <<state_machine, since_stop>>

\* add_state as the user of a bare builder calls it (SpecBuilder)
Call_add_state ==
    /\ Building
    /\ n_add < MaxAddState
    /\ \E name \in UserNames, a \in TimerOutputArgs,
          transitions \in TransitionDictsTo(Names) :
            sm' = add_state(sm, name, a[1], transitions, a[2], a[3], a[4])
    /\ n_add' = n_add + 1
    /\ ret' = <<>>
    /\ BuilderReturns("add_state", FALSE)
    /\ UNCHANGED named

\* add_state as a task calls it when it prepares a trial (Spec)
Task_add_state ==
    /\ Building
    /\ \E name \in TemplateUserNames, statetimer \in TimerValues,
          transitions \in TransitionDictsTo(TemplateNames),
          outputsOn \in SUBSET DOMAIN outputs_dict,
          outputsOff \in SUBSET DOMAIN outputs_dict :
            /\ sm' = add_state(sm, name, statetimer, transitions, outputsOn, outputsOff, 0)
            /\ named' = {p \in named : p[1] # name}
                            \cup {<<name, c>> : c \in named_columns(transitions)}
    /\ ret' = <<>>
    /\ BuilderReturns("add_state", FALSE)
    /\ UNCHANGED n_add

Call_reset_transitions ==
    /\ Building
    /\ sm' = reset_transitions(sm)
    /\ ret' = <<>>
    /\ BuilderReturns("reset_transitions", FALSE)
    /\ named' = {}
    /\ UNCHANGED n_add

Call_get_matrix ==
    /\ Building
    /\ sm' = get_matrix(sm).sm
    /\ ret' = get_matrix(sm).value
    /\ BuilderReturns("get_matrix", get_matrix(sm).raised)
    /\ UNCHANGED <<n_add, named>>

Call_get_outputs ==
    /\ Building
    /\ sm' = get_outputs(sm).sm
    /\ ret' = get_outputs(sm).value
    /\ BuilderReturns("get_outputs", get_outputs(sm).raised)
    /\ UNCHANGED <<n_add, named>>

Call_get_state_timers ==
    /\ Building
    /\ sm' = get_state_timers(sm).sm
    /\ ret' = get_state_timers(sm).value
    /\ BuilderReturns("get_state_timers", get_state_timers(sm).raised)
    /\ UNCHANGED <<n_add, named>>

(***************************************************************************)
(* Runtime actions                                                         *)
(***************************************************************************)
\* the runtime method `name` returned r
RuntimeReturns(name, r) ==
    /\ state_machine' = r.state_machine
    /\ emitted' = r.emitted
    /\ raised' = r.raised
    /\ last_call' = name
    /\ since_stop' = IF name = "stop" THEN TRUE
                     ELSE IF \E i \in 1..Len(r.emitted) : r.emitted[i].signal = "stateChanged"
                     THEN FALSE
                     ELSE since_stop
    /\ UNCHANGED <<sm, ret, n_add, named>>

Call_set_state_matrix ==
    LET r == Dispatcher_set_state_matrix(sm, state_machine)
    IN  /\ sm' = r.sm
        /\ state_machine' = r.state_machine
        /\ raised' = r.raised
        /\ emitted' = <<>>
        /\ last_call' = "set_state_matrix"
        /\ UNCHANGED <<ret, n_add, named, since_stop>>

Call_start == RuntimeReturns("start", start(state_machine))

Call_stop == RuntimeReturns("stop", stop(state_machine))

process_input_step(input_event) ==
    RuntimeReturns("process_input", process_input(state_machine, input_event))

Call_process_input == \E input_event \in EventArgs : process_input_step(input_event)

\* the pending single-shot state timer fires
StateTimerExpired ==
    /\ state_machine.state_timer_active
    /\ RuntimeReturns("state_timer_expired",
                      on_state_timer_expired(
                          [state_machine EXCEPT !.state_timer_active = FALSE,
                                                !.state_timer_for = None]))

force_state_step(state_index) ==
    RuntimeReturns("force_state", force_state(state_machine, state_index))

Call_force_state == \E state_index \in StateArgs : force_state_step(state_index)

force_output_step(output, value) ==
    RuntimeReturns("force_output", force_output(state_machine, output, value))

Call_force_output ==
    \E output \in OutputArgs, value \in BOOLEAN : force_output_step(output, value)

\* forceStateTransition.emit(state_index)
Call_forceStateTransition ==
    \E state_index \in StateArgs :
        RuntimeReturns("forceStateTransition",
                       on_force_state_transition(state_machine, state_index))

set_state_timer_step(state, duration) ==
    RuntimeReturns("set_state_timer", set_state_timer(state_machine, state, duration))

Call_set_state_timer ==
    \E state \in StateArgs, duration \in TimerValues : set_state_timer_step(state, duration)

Call_set_integer_outputs ==
    \E integer_outputs \in IntegerOutputArgs :
        RuntimeReturns("set_integer_outputs",
                       set_integer_outputs(state_machine, integer_outputs))

\* set_state_matrix(sm.get_matrix()) called on the runtime directly
Call_runtime_set_state_matrix ==
    /\ ~get_matrix(sm).raised
    /\ state_machine' = set_state_matrix(state_machine, get_matrix(sm).value, None).state_machine
    /\ raised' = set_state_matrix(state_machine, get_matrix(sm).value, None).raised
    /\ sm' = get_matrix(sm).sm
    /\ emitted' = <<>>
    /\ last_call' = "runtime_set_state_matrix"
    /\ UNCHANGED <<ret, n_add, named, since_stop>>

\* set_state_outputs(sm.get_outputs()) called on the runtime directly
Call_set_state_outputs ==
    /\ ~get_outputs(sm).raised
    /\ state_machine' = set_state_outputs(state_machine, get_outputs(sm).value).state_machine
    /\ raised' = set_state_outputs(state_machine, get_outputs(sm).value).raised
    /\ sm' = get_outputs(sm).sm
    /\ emitted' = <<>>
    /\ last_call' = "set_state_outputs"
    /\ UNCHANGED <<ret, n_add, named, since_stop>>

\* set_state_timers(sm.get_state_timers()) called on the runtime directly
Call_set_state_timers ==
    /\ state_machine' =
           set_state_timers(state_machine, get_state_timers(sm).value).state_machine
    /\ raised' = set_state_timers(state_machine, get_state_timers(sm).value).raised
    /\ sm' = get_state_timers(sm).sm
    /\ emitted' = <<>>
    /\ last_call' = "set_state_timers"
    /\ UNCHANGED <<ret, n_add, named, since_stop>>

\* add_state as a task calls it for the trial templates of SpecControl
Trial_add_state ==
    /\ Building
    /\ \E name \in TemplateUserNames, statetimer \in TimerValues,
          transitions \in TrialTransitions, outputsOn \in {{}, {"v"}} :
            /\ sm' = add_state(sm, name, statetimer, transitions, outputsOn, {}, 0)
            /\ named' = {p \in named : p[1] # name}
                            \cup {<<name, c>> : c \in named_columns(transitions)}
    /\ ret' = <<>>
    /\ BuilderReturns("add_state", FALSE)
    /\ UNCHANGED n_add

Call_reset == RuntimeReturns("reset", reset(state_machine))

\* the add_state calls of the reward scenario, in order, as <<name,
\* statetimer, transitions, outputsOn>>: with the one input port p, pin is
\* the poke on the rewarded side L and pout the event of the other side R;
\* v is ValveL and w is ValveR; the finite statetimer 0.1 is the duration 2
RewardStates ==
    << <<"wait", INFINITE_TIME,
         << <<<<"p", "in">>, "rewardL">>, <<<<"p", "out">>, "rewardR">> >>, {}>>,
       <<"rewardL", 2, << <<Tup, "END">> >>, {"v"}>>,
       <<"rewardR", 2, << <<Tup, "END">> >>, {"w"}>> >>

\* the task builds the scenario: the next add_state call of RewardStates
Reward_add_state ==
    /\ Building
    /\ n_add < Len(RewardStates)
    /\ sm' = add_state(sm, RewardStates[n_add + 1][1], RewardStates[n_add + 1][2],
                       RewardStates[n_add + 1][3], RewardStates[n_add + 1][4], {}, 0)
    /\ n_add' = n_add + 1
    /\ ret' = <<>>
    /\ BuilderReturns("add_state", FALSE)
    /\ UNCHANGED named

\* the finished scenario is loaded into the runtime
Reward_set_state_matrix ==
    /\ Building
    /\ n_add = Len(RewardStates)
    /\ Call_set_state_matrix

\* a query returns: the runtime is as it was and nothing is emitted
QueryReturns(name, r) ==
    /\ last_call' = name
    /\ ret' = r.value
    /\ raised' = r.raised
    /\ emitted' = <<>>
    /\ UNCHANGED <<sm, state_machine, n_add, named, since_stop>>

get_output_state_step(output) ==
    QueryReturns("get_output_state", get_output_state(state_machine, output))

Call_get_output_state == \E output \in OutputArgs : get_output_state_step(output)

get_transitions_from_state_step(state) ==
    QueryReturns("get_transitions_from_state",
                 get_transitions_from_state(state_machine, state))

Call_get_transitions_from_state ==
    \E state \in StateArgs : get_transitions_from_state_step(state)

get_transitions_for_input_step(input_event) ==
    QueryReturns("get_transitions_for_input",
                 get_transitions_for_input(state_machine, input_event))

Call_get_transitions_for_input ==
    \E input_event \in EventArgs : get_transitions_for_input_step(input_event)

find_states_with_output_step(output, value) ==
    QueryReturns("find_states_with_output",
                 find_states_with_output(state_machine, output, value))

Call_find_states_with_output ==
    \E output \in OutputArgs, value \in BOOLEAN :
        find_states_with_output_step(output, value)

(***************************************************************************)
(* Specifications                                                          *)
(***************************************************************************)
\* the builder alone
NextBuilder ==
    \/ Call_add_state
    \/ Call_reset_transitions
    \/ Call_get_matrix
    \/ Call_get_outputs
    \/ Call_get_state_timers

SpecBuilder == Init /\ [][NextBuilder]_vars

\* a template is built, loaded into the runtime and run
Next ==
    \/ Task_add_state
    \/ Call_reset_transitions
    \/ Call_set_state_matrix
    \/ Call_start
    \/ Call_stop
    \/ Call_process_input
    \/ StateTimerExpired
    \/ Call_force_state
    \/ Call_force_output

Spec == Init /\ [][Next]_vars

\* a trial template is built and loaded by the dispatcher; the runtime is
\* run and forced, and the timer of a state is changed while it runs
NextControl ==
    \/ Trial_add_state
    \/ Call_set_state_matrix
    \/ Call_set_state_timer
    \/ Call_start
    \/ Call_stop
    \/ Call_process_input
    \/ StateTimerExpired
    \/ Call_force_state
    \/ Call_forceStateTransition

SpecControl == Init /\ [][NextControl]_vars

\* the setters of the runtime are called one by one, in any order and at
\* any time, with the arrays of the trial template
NextSetters ==
    \/ Trial_add_state
    \/ Call_runtime_set_state_matrix
    \/ Call_set_state_outputs
    \/ Call_set_state_timers
    \/ Call_set_integer_outputs
    \/ Call_start
    \/ Call_stop
    \/ StateTimerExpired
    \/ Call_force_state

SpecSetters == Init /\ [][NextSetters]_vars

\* a template is loaded and the control operations and the queries of the
\* runtime are called in any order
NextQueries ==
    \/ Trial_add_state
    \/ Call_set_state_matrix
    \/ Call_start
    \/ Call_stop
    \/ Call_process_input
    \/ StateTimerExpired
    \/ Call_force_state
    \/ Call_force_output
    \/ Call_get_output_state
    \/ Call_get_transitions_from_state
    \/ Call_get_transitions_for_input
    \/ Call_find_states_with_output

SpecQueries == Init /\ [][NextQueries]_vars

\* the runtime is configured by its setters, reset, and run, with outputs
\* forced from outside
NextObservers ==
    \/ Trial_add_state
    \/ Call_runtime_set_state_matrix
    \/ Call_set_state_outputs
    \/ Call_set_state_timers
    \/ Call_reset
    \/ Call_start
    \/ Call_stop
    \/ Call_process_input
    \/ StateTimerExpired
    \/ Call_force_state
    \/ Call_force_output

SpecObservers == Init /\ [][NextObservers]_vars

\* the reward scenario is built and loaded once, and then run
NextReward ==
    \/ Reward_add_state
    \/ Reward_set_state_matrix
    \/ Call_start
    \/ Call_stop
    \/ Call_process_input
    \/ StateTimerExpired
    \/ Call_force_state
    \/ Call_force_output

SpecReward == Init /\ [][NextReward]_vars

\* names of the extra timers, and the durations passed for them
ExtraTimerNames == {"punish"}
ExtraTimerDurations == {0, 2}

Call_add_extratimer ==
    /\ Building
    /\ \E name \in ExtraTimerNames, duration \in ExtraTimerDurations :
          LET r == add_extratimer(sm, name, duration)
          IN  /\ sm' = r.sm
              /\ raised' = IF r.raised THEN "Exception" ELSE ""
    /\ last_call' = "add_extratimer"
    /\ emitted' = <<>>
    /\ ret' = <<>>
    /\ UNCHANGED <<state_machine, since_stop, n_add, named>>

\* a builder is given extra timers after its construction
NextExtraBuilder ==
    \/ Call_add_extratimer
    \/ Trial_add_state
    \/ Call_reset_transitions
    \/ Call_get_matrix

SpecExtraBuilder == Init /\ [][NextExtraBuilder]_vars

\* the event of the extra timer punish
Punish == <<"punish", "">>

\* a builder constructed with extratimers=['punish'] and a fresh runtime
InitExtraTimers ==
    /\ sm = StateMatrix_init_extratimers(<<"punish">>)
    /\ state_machine = StateMachine_init
    /\ emitted = <<>>
    /\ last_call = "init"
    /\ raised = ""
    /\ ret = <<>>
    /\ n_add = 0
    /\ named = {}
    /\ since_stop = FALSE

Call_set_extratimer ==
    /\ Building
    /\ \E name \in ExtraTimerNames, duration \in ExtraTimerDurations :
          LET r == set_extratimer(sm, name, duration)
          IN  /\ sm' = r.sm
              /\ raised' = IF r.raised THEN "Exception" ELSE ""
    /\ last_call' = "set_extratimer"
    /\ emitted' = <<>>
    /\ ret' = <<>>
    /\ UNCHANGED <<state_machine, since_stop, n_add, named>>

\* the add_state calls of the punishment scenario, in order, as <<name,
\* statetimer, transitions, outputsOn, trigger>>: a poke in wait leads to
\* wrong_poke, whose entry triggers the extra timer punish and whose own
\* timer leads back to wait; the event of punish leads to punished from
\* both
PunishStates ==
    << <<"wait", INFINITE_TIME,
         << <<<<"p", "in">>, "wrong_poke">>, <<Punish, "punished">> >>, {}, <<>> >>,
       <<"wrong_poke", 2,
         << <<Tup, "wait">>, <<Punish, "punished">> >>, {}, <<"punish">> >>,
       <<"punished", INFINITE_TIME, <<>>, {"w"}, <<>> >> >>

\* the task builds the scenario: the next add_state call of PunishStates
Punish_add_state ==
    /\ Building
    /\ n_add < Len(PunishStates)
    /\ sm' = add_state_trigger(sm, PunishStates[n_add + 1][1], PunishStates[n_add + 1][2],
                               PunishStates[n_add + 1][3], PunishStates[n_add + 1][4],
                               PunishStates[n_add + 1][5])
    /\ n_add' = n_add + 1
    /\ ret' = <<>>
    /\ BuilderReturns("add_state", FALSE)
    /\ UNCHANGED named

\* the finished scenario is loaded into the runtime
Punish_set_state_matrix ==
    /\ Building
    /\ n_add = Len(PunishStates)
    /\ Call_set_state_matrix

\* the punishment scenario is built and loaded once, and then run; a
\* pending single-shot timer of the runtime fires eventually
NextExtraTimers ==
    \/ Call_set_extratimer
    \/ Punish_add_state
    \/ Punish_set_state_matrix
    \/ Call_start
    \/ Call_stop
    \/ Call_process_input
    \/ StateTimerExpired
    \/ Call_force_state

SpecExtraTimers ==
    InitExtraTimers /\ [][NextExtraTimers]_vars /\ WF_vars(StateTimerExpired)

\* <<outputsOn, outputsOff>> of the templates of SpecNotify: a state that
\* leaves the outputs alone, one that switches both on, one that switches
\* both off
NotifyOutputs == {<<{}, {}>>, <<{"v", "w"}, {}>>, <<{}, {"v", "w"}>>}

\* add_state as a task calls it for the templates of SpecNotify
Notify_add_state ==
    /\ Building
    /\ \E name \in TemplateUserNames, statetimer \in TimerValues,
          transitions \in TrialTransitions, o \in NotifyOutputs :
            /\ sm' = add_state(sm, name, statetimer, transitions, o[1], o[2], 0)
            /\ named' = {p \in named : p[1] # name}
                            \cup {<<name, c>> : c \in named_columns(transitions)}
    /\ ret' = <<>>
    /\ BuilderReturns("add_state", FALSE)
    /\ UNCHANGED n_add

\* a template is loaded, with or without integer outputs, and run
NextNotify ==
    \/ Notify_add_state
    \/ Call_set_state_matrix
    \/ Call_set_integer_outputs
    \/ Call_start
    \/ Call_process_input
    \/ StateTimerExpired
    \/ Call_force_state
    \/ Call_force_output

SpecNotify == Init /\ [][NextNotify]_vars

\* arrays passed to the setters of the runtime directly: matrices with 2
\* and 3 states and one with a target outside its 2 states; outputs for 2
\* and 3 states and one with a value that is no directive; timers for 2
\* and 3 states
MatrixArgs ==
    {<< <<0, 0, 1>>, <<1, 1, 1>> >>,
     << <<0, 0, 1>>, <<1, 2, 2>>, <<2, 2, 2>> >>,
     << <<0, 0, 2>>, <<1, 1, 1>> >>}
TimerEventIndexArgs == {None, Some(2), Some(3)}
OutputsArgs ==
    {<< <<-1, -1>>, <<1, -1>> >>,
     << <<-1, -1>>, <<1, -1>>, <<0, -1>> >>,
     << <<-1>>, <<2>> >>}
TimersArgs == {<<0, 2>>, <<0, 2, INFINITE_TIME>>}

Array_set_state_matrix ==
    \E state_matrix \in MatrixArgs, timer_event_index \in TimerEventIndexArgs :
        RuntimeReturns("set_state_matrix",
                       set_state_matrix(state_machine, state_matrix, timer_event_index))

Array_set_state_outputs ==
    \E state_outputs \in OutputsArgs :
        RuntimeReturns("set_state_outputs",
                       set_state_outputs(state_machine, state_outputs))

Array_set_state_timers ==
    \E state_timers \in TimersArgs :
        RuntimeReturns("set_state_timers",
                       set_state_timers(state_machine, state_timers))

\* the runtime is configured with arrays, valid or not, and run
NextArrays ==
    \/ Array_set_state_matrix
    \/ Array_set_state_outputs
    \/ Array_set_state_timers
    \/ Call_reset
    \/ Call_start
    \/ Call_stop
    \/ Call_process_input
    \/ StateTimerExpired
    \/ Call_force_state

SpecArrays == Init /\ [][NextArrays]_vars

\* arguments of add_state with names the builder may not know: the event
\* qin of an undeclared input q, the output x, the extra timer punish of a
\* builder constructed without extra timers
RaisingNames == {"A", "B"}
RaisingTransitions ==
    {<<>>, << <<Tup, "B">> >>, << <<<<"q", "in">>, "B">> >>,
     << <<<<"p", "in">>, "END">>, <<<<"q", "in">>, "A">> >>}
RaisingOutputs == {<<>>, <<"v">>, <<"w", "x">>}
RaisingTriggers == {<<>>, <<"punish">>}

Raising_add_state ==
    /\ Building
    /\ \E name \in RaisingNames, statetimer \in TimerValues,
          transitions \in RaisingTransitions, outputsOn \in RaisingOutputs,
          outputsOff \in RaisingOutputs, trigger \in RaisingTriggers :
            LET r == add_state_raising(sm, name, statetimer, transitions, outputsOn,
                                       outputsOff, 0, trigger)
            IN  /\ sm' = r.sm
                /\ raised' = r.raised
    /\ last_call' = "add_state"
    /\ emitted' = <<>>
    /\ ret' = <<>>
    /\ UNCHANGED <<state_machine, since_stop, n_add, named>>

\* a builder is given add_state calls, some of which raise
NextRaising ==
    \/ Raising_add_state
    \/ Call_reset_transitions
    \/ Call_get_matrix

SpecRaising == Init /\ [][NextRaising]_vars

(***************************************************************************)
(* Properties of the runtime (Spec)                                        *)
(***************************************************************************)
\* the valid event columns and output channels (0-based)
EventColumns == 0..(n_input_events - 1)
OutputChannels == 0..(n_outputs - 1)

Running == state_machine.is_running /\ is_configured(state_machine)

\* the number of signals named signal in the sequence signals
Count(signals, signal) ==
    Cardinality({i \in 1..Len(signals) : signals[i].signal = signal})

\* the outputChanged signals for channel c in the sequence signals
OutputSignals(signals, c) ==
    {i \in 1..Len(signals) : signals[i].signal = "outputChanged" /\ signals[i].a = c}

\* this step entered a state through _enter_state
Entered ==
    /\ last_call' \in {"process_input", "state_timer_expired", "force_state"}
    /\ \/ state_machine'.current_state # state_machine.current_state
       \/ Count(emitted', "stateChanged") > 0

\* the output directive of the state entered by this step for channel c
EnteredDirective(c) ==
    state_machine'.state_outputs[1][state_machine'.current_state + 1][c + 1]

\* process_input(E) in state S left current_state at S and emitted only
\* eventProcessed(E, S)
SelfLoopStep(n, E) ==
    /\ state_machine'.current_state = sm.states[n]
    /\ emitted' = <<eventProcessed(E, sm.states[n])>>

\* C1 as stated: for every state S of the loaded matrix and every event
\* column E that add_state gave S no explicit transition for,
\* process_input(E) in S leaves current_state at S and emits
\* eventProcessed(E, S) and nothing else.
C1_AsStated ==
    [][\A n \in DOMAIN sm.states, E \in EventColumns :
          (/\ Running
           /\ state_machine.current_state = sm.states[n]
           /\ <<n, E>> \notin named
           /\ process_input_step(E))
          => SelfLoopStep(n, E)]_vars

\* C1 amended: the same for every state S and event column E without an
\* explicit transition, other than the timeout column of START, which the
\* constructor of the builder points at state 1.
C1_SelfLoop ==
    [][\A n \in DOMAIN sm.states, E \in EventColumns :
          (/\ Running
           /\ state_machine.current_state = sm.states[n]
           /\ <<n, E>> \notin named
           /\ ~(n = "START" /\ E = events_dict[Tup])
           /\ process_input_step(E))
          => SelfLoopStep(n, E)]_vars

\* a state with one explicit transition received an event of another
\* column and stayed
C1_Witness ==
    /\ last_call = "process_input"
    /\ Running
    /\ "A" \in DOMAIN sm.states
    /\ state_machine.current_state = sm.states["A"]
    /\ \E E \in EventColumns, F \in EventColumns :
          /\ <<"A", F>> \in named
          /\ <<"A", E>> \notin named
          /\ state_machine.state_matrix[1][sm.states["A"] + 1][F + 1] # sm.states["A"]
          /\ emitted = <<eventProcessed(E, sm.states["A"])>>

\* C2: for a running machine in state s and a valid event index e,
\* process_input(e) sets current_state to state_matrix[s][e], emits exactly
\* one eventProcessed, carrying e and that state, and emits stateChanged
\* (carrying that state) exactly when state_matrix[s][e] differs from s.
C2_TableLookup ==
    [][\A e \in EventColumns :
          (Running /\ process_input_step(e))
          => LET s == state_machine.current_state
                 t == state_machine.state_matrix[1][s + 1][e + 1]
             IN  /\ state_machine'.current_state = t
                 /\ Count(emitted', "eventProcessed") = 1
                 /\ emitted'[1] = eventProcessed(e, t)
                 /\ Count(emitted', "stateChanged") = (IF t # s THEN 1 ELSE 0)
                 /\ t # s => emitted'[Len(emitted')] = stateChanged(t)]_vars

\* process_input moved the machine to another state
C2_Witness ==
    /\ last_call = "process_input"
    /\ Running
    /\ Len(emitted) >= 2
    /\ emitted[1].signal = "eventProcessed"
    /\ emitted[1].b = state_machine.current_state
    /\ emitted[Len(emitted)] = stateChanged(state_machine.current_state)

\* C3: when the state timer of a running machine expires, the resulting
\* current_state, the resulting output_states and the sequence of emitted
\* signals are those that process_input(timer_event_index) produces in the
\* same state with the same outputs.
C3_TimerAsInput ==
    [][(Running /\ StateTimerExpired)
       => /\ state_machine'.current_state =
                process_input(state_machine,
                              state_machine.timer_event_index[1]).state_machine.current_state
          /\ state_machine'.output_states =
                process_input(state_machine,
                              state_machine.timer_event_index[1]).state_machine.output_states
          /\ emitted' =
                process_input(state_machine,
                              state_machine.timer_event_index[1]).emitted]_vars

\* an expired timer moved the machine to a state that changed an output
C3_Witness ==
    /\ last_call = "state_timer_expired"
    /\ Running
    /\ Len(emitted) = 3
    /\ emitted[1] = eventProcessed(state_machine.timer_event_index[1],
                                   state_machine.current_state)
    /\ emitted[2].signal = "outputChanged"
    /\ emitted[3] = stateChanged(state_machine.current_state)

\* C4: entering a state (by an input event, a timer expiry or force_state)
\* whose directive for channel c is NOCHANGE leaves output_states[c] as it
\* was and emits no outputChanged for c, whatever set the value before.
C4_NoChangeFrame ==
    [][Entered
       => \A c \in OutputChannels :
             EnteredDirective(c) = NOCHANGE
             => /\ state_machine'.output_states[c + 1] = state_machine.output_states[c + 1]
                /\ OutputSignals(emitted', c) = {}]_vars

\* a state with NOCHANGE for c was entered while c was on, and no state of
\* the matrix switches c on: force_output had set it
C4_Witness ==
    /\ last_call \in {"process_input", "state_timer_expired", "force_state"}
    /\ Running
    /\ Count(emitted, "stateChanged") = 1
    /\ \E c \in OutputChannels :
          /\ state_machine.state_outputs[1][state_machine.current_state + 1][c + 1] = NOCHANGE
          /\ state_machine.output_states[c + 1]
          /\ \A s \in 1..state_machine.num_states :
                state_machine.state_outputs[1][s][c + 1] # 1

\* C5: on entering a state, outputChanged(c, v) is emitted exactly for the
\* channels c whose directive is ON or OFF and differs from the current
\* value of c (once, with v the directive); an ON directive for a channel
\* that is already on emits nothing; afterwards output_states[c] equals the
\* directive for every channel whose directive is ON or OFF.
C5_OutputDiffing ==
    [][Entered
       => \A c \in OutputChannels :
             /\ EnteredDirective(c) \in {0, 1}
                => state_machine'.output_states[c + 1] = (EnteredDirective(c) = 1)
             /\ IF /\ EnteredDirective(c) \in {0, 1}
                   /\ state_machine.output_states[c + 1] # (EnteredDirective(c) = 1)
                THEN \E i \in 1..Len(emitted') :
                        /\ OutputSignals(emitted', c) = {i}
                        /\ emitted'[i].b = EnteredDirective(c)
                ELSE OutputSignals(emitted', c) = {}]_vars

\* a state that switches c on was entered while c was already on, and
\* nothing was signalled for c; the other channel was switched
C5_Witness ==
    /\ last_call \in {"process_input", "state_timer_expired", "force_state"}
    /\ Running
    /\ Count(emitted, "stateChanged") = 1
    /\ \E c \in OutputChannels, d \in OutputChannels :
          /\ state_machine.state_outputs[1][state_machine.current_state + 1][c + 1] = 1
          /\ state_machine.output_states[c + 1]
          /\ OutputSignals(emitted, c) = {}
          /\ OutputSignals(emitted, d) # {}

(***************************************************************************)
(* Properties of the builder (SpecBuilder)                                 *)
(***************************************************************************)
Finalizers == {"get_matrix", "get_outputs", "get_state_timers"}

\* C6 as stated: in the array a finalizer returns, the state named END has
\* index n_states - 1, whatever the order in which add_state introduced the
\* other names.
C6_EndIsLast ==
    last_call \in Finalizers
    => /\ "END" \in DOMAIN sm.states
       /\ sm.states["END"] = Len(ret) - 1

\* C7 as stated: in the finalized arrays START has index 0, its state timer
\* is 0 and its timeout column holds 1, whatever add_state and
\* reset_transitions calls came before.
C7_StartManaged ==
    /\ last_call \in Finalizers => sm.states["START"] = 0
    /\ last_call = "get_state_timers" => ret[1] = 0
    /\ last_call = "get_matrix" => ret[1][events_dict[Tup] + 1] = 1

\* C8: once a finalizer has returned, calling the same finalizer again
\* returns an equal array and leaves the builder, hence the number of
\* states and the index of END, as the first call left it.
C8_FinalizeIdempotent ==
    /\ last_call = "get_matrix"
       => /\ get_matrix(sm).value = ret
          /\ get_matrix(sm).sm = sm
    /\ last_call = "get_outputs"
       => /\ get_outputs(sm).value = ret
          /\ get_outputs(sm).sm = sm
    /\ last_call = "get_state_timers"
       => /\ get_state_timers(sm).value = ret
          /\ get_state_timers(sm).sm = sm
    /\ last_call \in Finalizers
       => /\ Len(ensure_end_state(sm).state_matrix) = Len(sm.state_matrix)
          /\ ensure_end_state(sm).states["END"] = sm.states["END"]

\* a finalizer returned the arrays of a builder with user states, END
\* created by the finalizer itself
C8_Witness ==
    /\ last_call = "get_state_timers"
    /\ n_add >= 1
    /\ "END" \in DOMAIN sm.states
    /\ sm.states["END"] = Len(ret) - 1
    /\ Len(ret) >= 3
    /\ \E k \in 1..Len(ret) : ret[k] = 2

\* C9: every call keeps the index of every name already in the builder,
\* gives the new names the next unused indices, and leaves the name-to-index
\* map a bijection onto 0..n-1, n the number of states.
C9_AppendOnly ==
    [][/\ \A n \in DOMAIN sm.states :
             n \in DOMAIN sm'.states /\ sm'.states[n] = sm.states[n]
       /\ {sm'.states[n] : n \in DOMAIN sm'.states \ DOMAIN sm.states}
             = Cardinality(DOMAIN sm.states)..(Cardinality(DOMAIN sm'.states) - 1)
       /\ {sm'.states[n] : n \in DOMAIN sm'.states}
             = 0..(Cardinality(DOMAIN sm'.states) - 1)
       /\ Len(sm'.state_matrix) = Cardinality(DOMAIN sm'.states)]_vars

\* four names were introduced, by add_state, as a transition target and by
\* a finalizer, and reset_transitions came after
C9_Witness ==
    /\ last_call = "reset_transitions"
    /\ DOMAIN sm.states = {"START", "A", "B", "END"}
    /\ sm.states["END"] = 3
    /\ sm.states["START"] = 0

\* the state a transitions dict auto-created has a self-loop row, an
\* infinite timer and NOCHANGE for every output
AutoCreatedDefault(b, transitions) ==
    \A k \in 1..Len(transitions) :
        /\ b.state_matrix[b.states[transitions[k][2]] + 1]
              = Repeat(n_input_events, b.states[transitions[k][2]])
        /\ b.state_timers[b.states[transitions[k][2]] + 1] = INFINITE_TIME
        /\ b.state_outputs[b.states[transitions[k][2]] + 1] = Repeat(n_outputs, NOCHANGE)

\* C10: after any sequence of calls get_matrix does not raise and every
\* entry of the matrix it returns is a state index in 0..n_states-1; a name
\* that a call of add_state only references as a transition target is
\* created with a self-loop row, an infinite timer and NOCHANGE outputs.
C10_ValidTargets ==
    /\ ~get_matrix(sm).raised
    /\ \A s \in 1..Len(get_matrix(sm).value) :
          \A c \in 1..Len(get_matrix(sm).value[s]) :
             get_matrix(sm).value[s][c] \in 0..(Len(get_matrix(sm).value) - 1)
    /\ raised = ""
    /\ n_add < MaxAddState
       => \A name \in UserNames, a \in TimerOutputArgs :
             \A transitions \in TransitionDictsTo(Names \ (DOMAIN sm.states \cup {name})) :
                AutoCreatedDefault(add_state(sm, name, a[1], transitions, a[2], a[3], a[4]),
                                   transitions)

\* get_matrix returned a matrix in which a state with a timer and an output
\* points at B, a name that was only a transition target
C10_Witness ==
    /\ last_call = "get_matrix"
    /\ {"A", "B"} \subseteq DOMAIN sm.states
    /\ \E c \in 1..n_input_events : ret[sm.states["A"] + 1][c] = sm.states["B"]
    /\ sm.state_timers[sm.states["A"] + 1] = 2
    /\ AutoCreatedDefault(sm, << <<Tup, "B">> >>)

\* b is the builder add_state(name, a, transitions) left behind when
\* called on sm: the state name has exactly the row, timer, outputs and
\* serial byte of these arguments, and the other states of sm are as in sm
ReplacedBy(b, name, a, transitions) ==
    /\ b.state_matrix[sm.states[name] + 1] =
          [c \in 1..n_input_events |->
              IF c - 1 \in named_columns(transitions)
              THEN b.states[transitions[1][2]]
              ELSE sm.states[name]]
    /\ b.state_timers[sm.states[name] + 1] = a[1]
    /\ \A o \in DOMAIN outputs_dict :
          b.state_outputs[sm.states[name] + 1][outputs_dict[o] + 1] =
              (IF o \in a[3] THEN 0 ELSE IF o \in a[2] THEN 1 ELSE NOCHANGE)
    /\ b.serial_outputs[sm.states[name] + 1] = a[4]
    /\ \A k \in 1..Len(sm.state_matrix) :
          k # sm.states[name] + 1
          => /\ b.state_matrix[k] = sm.state_matrix[k]
             /\ b.state_timers[k] = sm.state_timers[k]
             /\ b.state_outputs[k] = sm.state_outputs[k]

\* C11: add_state on a name the builder already has replaces that state:
\* its row, timer, output directives and serial byte are those of the new
\* arguments alone (events not named self-loop, outputs not named are
\* NOCHANGE), and no other state's row, timer or outputs change.
C11_Replacement ==
    n_add < MaxAddState
    => \A name \in UserNames \cap DOMAIN sm.states :
          \A a \in TimerOutputArgs, transitions \in TransitionDictsTo(Names) :
             ReplacedBy(add_state(sm, name, a[1], transitions, a[2], a[3], a[4]),
                        name, a, transitions)

\* add_state was called twice, both times for A, and the second call left
\* A with the default row although no call of reset_transitions was made
C11_Witness ==
    /\ last_call = "add_state"
    /\ n_add = 2
    /\ DOMAIN sm.states = {"START", "A"}
    /\ sm.state_matrix[sm.states["A"] + 1] = Repeat(n_input_events, sm.states["A"])
    /\ sm.state_timers[sm.states["A"] + 1] = 2
    /\ sm.serial_outputs[sm.states["A"] + 1] = 3

\* C12: reset_transitions leaves every state with a self-loop row, an
\* infinite timer and NOCHANGE for every output, and leaves the names and
\* their indices as they were.
C12_ResetTransitions ==
    [][last_call' = "reset_transitions"
       => /\ sm'.states = sm.states
          /\ Len(sm'.state_matrix) = Len(sm.state_matrix)
          /\ \A k \in 1..Len(sm'.state_matrix) :
                /\ sm'.state_matrix[k] = Repeat(n_input_events, k - 1)
                /\ sm'.state_timers[k] = INFINITE_TIME
                /\ sm'.state_outputs[k] = Repeat(n_outputs, NOCHANGE)]_vars

\* reset_transitions returned on a builder with a user state
C12_Witness ==
    /\ last_call = "reset_transitions"
    /\ n_add >= 1
    /\ "A" \in DOMAIN sm.states
    /\ Len(sm.state_matrix) >= 3
    /\ \A k \in 1..Len(sm.state_matrix) : sm.state_timers[k] = INFINITE_TIME

(***************************************************************************)
(* Properties of the setters of the runtime (SpecSetters)                  *)
(***************************************************************************)
Setters ==
    {"runtime_set_state_matrix", "set_state_timers", "set_state_outputs",
     "set_integer_outputs"}

\* C13 as stated: while is_running is true, each of set_state_matrix,
\* set_state_timers, set_state_outputs and set_integer_outputs fails with an
\* error and leaves the matrix, the timers, the output directives, the
\* integer outputs, current_state and output_states unchanged.
C13_NoReconfigurationWhileRunning ==
    [][(state_machine.is_running /\ last_call' \in Setters)
       => /\ raised' # ""
          /\ state_machine'.state_matrix = state_machine.state_matrix
          /\ state_machine'.state_timers = state_machine.state_timers
          /\ state_machine'.state_outputs = state_machine.state_outputs
          /\ state_machine'.integer_outputs = state_machine.integer_outputs
          /\ state_machine'.current_state = state_machine.current_state
          /\ state_machine'.output_states = state_machine.output_states]_vars

(***************************************************************************)
(* Properties of force_state and force_output (Spec)                       *)
(***************************************************************************)
\* the state force_state(i) targets
ForcedTarget(i) == IF i = -1 THEN state_machine.num_states - 1 ELSE i

\* the timer of state t is finite: entering t arms the state timer
FiniteTimer(t) == state_machine.state_timers[1][t + 1] # INFINITE_TIME

\* the runtime with the entry of the current row for event column 0
\* replaced by t
RowLeadsTo(t) ==
    [state_machine EXCEPT
        !.state_matrix = Some([@[1] EXCEPT ![state_machine.current_state + 1][1] = t])]

\* C14: force_state(i) on a running machine, with target t (the last state
\* when i = -1) different from current_state, emits eventProcessed(-1, t)
\* first and then does what a matrix-driven transition into t does: the old
\* timer is cancelled, the output directives of t are applied with diffing,
\* the timer of t is armed if it is finite, stateChanged(t) is emitted last;
\* the row of the old state plays no part.
C14_ForceState ==
    [][\A i \in StateArgs :
          (/\ Running
           /\ ForcedTarget(i) \in 0..(state_machine.num_states - 1)
           /\ ForcedTarget(i) # state_machine.current_state
           /\ force_state_step(i))
          => /\ raised' = ""
             /\ emitted'[1] = eventProcessed(-1, ForcedTarget(i))
             /\ emitted'[Len(emitted')] = stateChanged(ForcedTarget(i))
             /\ Count(emitted', "eventProcessed") = 1
             /\ Count(emitted', "stateChanged") = 1
             /\ state_machine'.current_state = ForcedTarget(i)
             /\ state_machine'.state_timer_active = FiniteTimer(ForcedTarget(i))
             /\ state_machine'.state_timer_for =
                   (IF FiniteTimer(ForcedTarget(i)) THEN Some(ForcedTarget(i)) ELSE None)
             /\ \A c \in OutputChannels :
                   state_machine'.output_states[c + 1] =
                      (IF EnteredDirective(c) = NOCHANGE
                       THEN state_machine.output_states[c + 1]
                       ELSE EnteredDirective(c) = 1)
             /\ Tail(emitted') =
                   Tail(process_input(RowLeadsTo(ForcedTarget(i)), 0).emitted)
             /\ state_machine'.output_states =
                   process_input(RowLeadsTo(ForcedTarget(i)), 0).state_machine.output_states
             /\ state_machine'.state_timer_for =
                   process_input(RowLeadsTo(ForcedTarget(i)), 0).state_machine.state_timer_for]_vars

\* force_state moved a running machine into a state that switches an output
\* and has a finite timer
C14_Witness ==
    /\ last_call = "force_state"
    /\ Running
    /\ Len(emitted) = 3
    /\ emitted[1] = eventProcessed(-1, state_machine.current_state)
    /\ emitted[2].signal = "outputChanged"
    /\ emitted[3] = stateChanged(state_machine.current_state)
    /\ state_machine.state_timer_for = Some(state_machine.current_state)

ForceOutputFrame(c) ==
    /\ state_machine'.current_state = state_machine.current_state
    /\ state_machine'.state_timer_active = state_machine.state_timer_active
    /\ state_machine'.state_timer_for = state_machine.state_timer_for
    /\ state_machine'.is_running = state_machine.is_running
    /\ \A d \in OutputChannels \ {c} :
          state_machine'.output_states[d + 1] = state_machine.output_states[d + 1]

MatrixEntry(s, e) == state_machine.state_matrix[1][s + 1][e + 1]

\* the machine is running and the timer armed for its current state is
\* pending: an input arriving now races with the expiry
RacePending ==
    /\ Running
    /\ state_machine.state_timer_active
    /\ state_machine.state_timer_for = Some(state_machine.current_state)

\* the pending timer has fired and its handler has run
AfterExpiry(m) ==
    on_state_timer_expired([m EXCEPT !.state_timer_active = FALSE,
                                     !.state_timer_for = None]).state_machine

\* C18: with the expiry of the timer of state S and an input e both
\* pending, each is processed by a lookup in the row of the state current
\* at that moment.  Input first: the new state is matrix[S][e]; if that
\* leaves S, S's timer is no longer pending (none, or the timer of the new
\* state), and if it stays in S the timer is still pending and its expiry
\* leads to matrix[S][Tup].  Timer first: the new state is matrix[S][Tup]
\* and the input then leads to matrix[matrix[S][Tup]][e].
C18_TimerEventRace ==
    [][\A e \in EventColumns :
          /\ (RacePending /\ process_input_step(e))
             => /\ state_machine'.current_state =
                      MatrixEntry(state_machine.current_state, e)
                /\ state_machine'.current_state # state_machine.current_state
                   => state_machine'.state_timer_for
                         \in {None, Some(state_machine'.current_state)}
                /\ state_machine'.current_state = state_machine.current_state
                   => /\ state_machine'.state_timer_for =
                            Some(state_machine.current_state)
                      /\ state_machine'.state_timer_active
                      /\ AfterExpiry(state_machine').current_state =
                            MatrixEntry(state_machine.current_state,
                                        state_machine.timer_event_index[1])
          /\ (RacePending /\ StateTimerExpired)
             => /\ state_machine'.current_state =
                      MatrixEntry(state_machine.current_state,
                                  state_machine.timer_event_index[1])
                /\ process_input(state_machine', e).state_machine.current_state =
                      MatrixEntry(MatrixEntry(state_machine.current_state,
                                              state_machine.timer_event_index[1]), e)]_vars

\* an input was processed first and looped back to the current state, whose
\* timer is still pending and leads to another state
C18_Witness ==
    /\ last_call = "process_input"
    /\ RacePending
    /\ Len(emitted) = 1
    /\ emitted[1].signal = "eventProcessed"
    /\ MatrixEntry(state_machine.current_state, state_machine.timer_event_index[1])
          # state_machine.current_state

\* stop() left the configuration, the current state and the outputs alone,
\* and the machine not running with no timer pending
StopFrame ==
    /\ ~state_machine'.is_running
    /\ ~state_machine'.state_timer_active
    /\ state_machine'.state_timer_for = None
    /\ raised' = ""
    /\ emitted' = <<>>
    /\ state_machine'.state_matrix = state_machine.state_matrix
    /\ state_machine'.state_timers = state_machine.state_timers
    /\ state_machine'.state_outputs = state_machine.state_outputs
    /\ state_machine'.current_state = state_machine.current_state
    /\ state_machine'.output_states = state_machine.output_states

\* C19 as stated: stop() makes is_running false, cancels the pending timer
\* and leaves state_matrix, state_timers, state_outputs, current_state and
\* output_states unchanged; no timer expiry is processed after stop() has
\* returned until a state is entered again after a later start().
C19_AsStated ==
    [][/\ Call_stop => StopFrame
       /\ (Running /\ StateTimerExpired) => ~since_stop]_vars

\* C19 amended: the same frame for stop(); no timer is pending on a machine
\* that is not running, and a timer becomes pending only on a running
\* machine, by a step that enters a state or by set_state_timer, so that no
\* expiry is processed after stop() until the timer is armed again in one
\* of these two ways after a later start().
C19_Stop ==
    [][/\ Call_stop => StopFrame
       /\ state_machine'.state_timer_active => state_machine'.is_running
       /\ (~state_machine.state_timer_active /\ state_machine'.state_timer_active)
          => /\ state_machine.is_running
             /\ \/ Count(emitted', "stateChanged") = 1
                \/ /\ last_call' = "set_state_timer"
                   /\ state_machine'.current_state = state_machine.current_state
       /\ (Running /\ StateTimerExpired) => state_machine.state_timer_active]_vars

\* stop() was called in a user state whose finite timer leads elsewhere
C19_Witness ==
    /\ last_call = "stop"
    /\ since_stop
    /\ is_configured(state_machine)
    /\ ~state_machine.is_running
    /\ ~state_machine.state_timer_active
    /\ state_machine.current_state \notin {0, state_machine.num_states - 1}
    /\ state_machine.state_timers[1][state_machine.current_state + 1] = 2
    /\ MatrixEntry(state_machine.current_state, state_machine.timer_event_index[1])
          # state_machine.current_state

(***************************************************************************)
(* Properties of start (SpecControl)                                       *)
(***************************************************************************)
\* C20: start() on a configured machine sets is_running and places the
\* machine in the last state, index num_states - 1, emitting no signal,
\* leaving output_states as they are and arming no timer; on an
\* unconfigured machine it raises the configuration error and the machine
\* stays not running.
C20_Start ==
    [][Call_start
       => IF is_configured(state_machine)
          THEN /\ raised' = ""
               /\ state_machine'.is_running
               /\ state_machine'.current_state = state_machine.num_states - 1
               /\ emitted' = <<>>
               /\ state_machine'.output_states = state_machine.output_states
               /\ state_machine'.state_timer_active = state_machine.state_timer_active
               /\ state_machine'.state_timer_for = state_machine.state_timer_for
          ELSE /\ raised' = "RuntimeError"
               /\ ~state_machine'.is_running
               /\ state_machine' = state_machine
               /\ emitted' = <<>>]_vars

\* start() returned on a configured machine whose last state has a finite
\* timer: the machine is in that state, nothing was emitted and no timer is
\* pending
C20_Witness ==
    /\ last_call = "start"
    /\ raised = ""
    /\ Running
    /\ emitted = <<>>
    /\ ~state_machine.state_timer_active
    /\ state_machine.current_state = state_machine.num_states - 1
    /\ state_machine.current_state # 0
    /\ state_machine.state_timers[1][state_machine.current_state + 1] = 2

\* C21 as stated: when a running machine in state S is stopped and then
\* started again with its configuration unchanged, it is running with
\* current_state = S: start() does not choose or change the state.
C21_AsStated ==
    Running
    => /\ start(stop(state_machine).state_machine).state_machine.is_running
       /\ start(stop(state_machine).state_machine).state_machine.current_state =
             state_machine.current_state

\* C21 amended: a start() that directly follows a stop() on a configured
\* machine resumes Running in the last state, num_states - 1, whatever
\* state the machine was stopped in.
C21_StartAfterStop ==
    [][(last_call = "stop" /\ is_configured(state_machine) /\ Call_start)
       => /\ state_machine'.is_running
          /\ state_machine'.current_state = state_machine.num_states - 1]_vars

\* start() returned on a machine that had been stopped and has entered no
\* state since: it is running in the last state, with no timer pending
C21_Witness ==
    /\ last_call = "start"
    /\ since_stop
    /\ Running
    /\ raised = ""
    /\ ~state_machine.state_timer_active
    /\ state_machine.num_states = 3
    /\ state_machine.current_state = 2

\* C22: process_input on a machine that is not running (never started,
\* stopped or unconfigured) changes nothing, emits nothing and raises
\* nothing, whatever the argument, out-of-range indices included.
C22_ProcessInputNotRunning ==
    [][\A e \in EventArgs :
          (~state_machine.is_running /\ process_input_step(e))
          => /\ state_machine' = state_machine
             /\ emitted' = <<>>
             /\ raised' = ""]_vars

\* process_input returned on a configured machine that was stopped in a
\* user state with a finite timer
C22_Witness ==
    /\ last_call = "process_input"
    /\ is_configured(state_machine)
    /\ ~state_machine.is_running
    /\ since_stop
    /\ raised = ""
    /\ emitted = <<>>
    /\ state_machine.current_state \notin {0, state_machine.num_states - 1}

(***************************************************************************)
(* Range errors (SpecQueries)                                              *)
(***************************************************************************)
\* the call raised the range error, changed nothing and emitted nothing
RangeError ==
    /\ raised' = "ValueError"
    /\ state_machine' = state_machine
    /\ emitted' = <<>>

\* an out-of-range index was passed to force_state, force_output, or a query
RangeErrorCall ==
    \/ \E i \in StateArgs \ (-1..(state_machine.num_states - 1)) :
          force_state_step(i) \/ get_transitions_from_state_step(i)
    \/ get_transitions_from_state_step(-1)
    \/ \E c \in OutputArgs \ OutputChannels :
          \/ get_output_state_step(c)
          \/ \E v \in BOOLEAN : force_output_step(c, v) \/ find_states_with_output_step(c, v)
    \/ \E e \in EventArgs \ (0..(state_machine.num_inputs - 1)) :
          get_transitions_for_input_step(e)

\* C23 as stated: on a configured machine, running or not, an out-of-range
\* index passed to process_input, force_state (-1 is valid), force_output,
\* get_output_state or a transition query raises a range error, changes
\* neither current_state nor output_states nor the timer and emits nothing.
C23_AsStated ==
    [][is_configured(state_machine)
       => /\ RangeErrorCall => RangeError
          /\ \A e \in EventArgs \ (0..(state_machine.num_inputs - 1)) :
                process_input_step(e) => RangeError]_vars

\* C23 amended: the same, with process_input raising the range error only
\* on a running machine.
C23_RangeErrors ==
    [][is_configured(state_machine)
       => /\ RangeErrorCall => RangeError
          /\ \A e \in EventArgs \ (0..(state_machine.num_inputs - 1)) :
                (state_machine.is_running /\ process_input_step(e)) => RangeError]_vars

\* a call on a running machine in a user state, its timer pending, raised
\* the range error
C23_Witness ==
    /\ raised = "ValueError"
    /\ last_call \in {"process_input", "force_state", "force_output", "get_output_state",
                      "get_transitions_from_state", "get_transitions_for_input",
                      "find_states_with_output"}
    /\ Running
    /\ state_machine.state_timer_active
    /\ state_machine.current_state \notin {0, state_machine.num_states - 1}
    /\ emitted = <<>>

(***************************************************************************)
(* What the observers of the signals know (SpecObservers)                  *)
(***************************************************************************)
\* the value an observer holds for channel c after the signals of one call:
\* that of the last outputChanged for c, else the one held before (false
\* when nothing was ever reported for c)
ObservedOutput(c, held, signals) ==
    IF OutputSignals(signals, c) # {}
    THEN signals[CHOOSE i \in OutputSignals(signals, c) :
                    \A j \in OutputSignals(signals, c) : j <= i].b = 1
    ELSE IF c + 1 \in DOMAIN held THEN held[c + 1] ELSE FALSE

\* C24: output_states[c] is modified only by a state entry or by
\* force_output, and every modification is reported by outputChanged(c, new
\* value): an observer whose copy agreed with output_states before a call
\* and who applies the outputChanged signals of the call agrees with
\* output_states after it, whichever operation was called
\* (set_state_matrix, set_state_outputs, set_state_timers, reset, start,
\* stop, process_input, timer expiry, force_state, force_output).
C24_ObserversSeeOutputs ==
    [][/\ \A c \in 0..(Len(state_machine'.output_states) - 1) :
             state_machine'.output_states[c + 1] =
                ObservedOutput(c, state_machine.output_states, emitted')
       /\ (\E c \in 0..(Len(state_machine'.output_states) - 1) :
              state_machine'.output_states[c + 1] =
                 ~ObservedOutput(c, state_machine.output_states, <<>>))
          => last_call' \in {"process_input", "state_timer_expired", "force_state",
                             "force_output"}]_vars

\* the stateChanged signals in the sequence signals
StateSignals(signals) == {i \in 1..Len(signals) : signals[i].signal = "stateChanged"}

\* C25: whenever current_state takes a new value, through an input event,
\* a timer expiry, a forced transition, start() or reset(), the call emits
\* stateChanged and the last one carries the new value: an observer that
\* records the last stateChanged value agrees with current_state.
C25_ObserversSeeState ==
    [][state_machine'.current_state # state_machine.current_state
       => /\ StateSignals(emitted') # {}
          /\ \A i \in StateSignals(emitted') :
                (\A j \in StateSignals(emitted') : j <= i)
                => emitted'[i].a = state_machine'.current_state]_vars

(***************************************************************************)
(* The reward scenario (SpecReward)                                        *)
(***************************************************************************)
\* the scenario is built, loaded and running
RewardRunning == Running /\ n_add = Len(RewardStates)

\* column of the event that stands for Lin, and of Tup
Lin == events_dict[<<"p", "in">>]
TupColumn == events_dict[Tup]

\* C28: in the reward scenario (wait{Lin: rewardL, Rin: rewardR},
\* rewardL{timer, Tup: END, ValveL on}, rewardR{timer, Tup: END, ValveR on})
\* built by the builder and loaded, Lin in wait yields
\* eventProcessed, outputChanged(ValveL, true) if ValveL was off, and
\* stateChanged(rewardL), with the state timer armed for rewardL and ValveR
\* untouched; the following Tup, by expiry or injected, moves the machine
\* to END with no outputChanged and the outputs as they were; ValveL, once
\* on, goes off only by force_output, and ValveR changes only on entry to
\* rewardR or by force_output.
C28_RewardScenario ==
    [][RewardRunning
       => /\ (state_machine.current_state = sm.states["wait"] /\ process_input_step(Lin))
             => /\ state_machine'.current_state = sm.states["rewardL"]
                /\ emitted' =
                      <<eventProcessed(Lin, sm.states["rewardL"])>>
                      \o (IF state_machine.output_states[outputs_dict["v"] + 1]
                          THEN <<>>
                          ELSE <<outputChanged(outputs_dict["v"], TRUE)>>)
                      \o <<stateChanged(sm.states["rewardL"])>>
                /\ state_machine'.output_states[outputs_dict["v"] + 1]
                /\ state_machine'.output_states[outputs_dict["w"] + 1] =
                      state_machine.output_states[outputs_dict["w"] + 1]
                /\ state_machine'.state_timer_active
                /\ state_machine'.state_timer_for = Some(sm.states["rewardL"])
          /\ (/\ state_machine.current_state = sm.states["rewardL"]
              /\ StateTimerExpired \/ process_input_step(TupColumn))
             => /\ state_machine'.current_state = sm.states["END"]
                /\ emitted' = <<eventProcessed(TupColumn, sm.states["END"]),
                                stateChanged(sm.states["END"])>>
                /\ state_machine'.output_states = state_machine.output_states
                /\ ~state_machine'.state_timer_active
          /\ (/\ state_machine.output_states[outputs_dict["v"] + 1]
              /\ ~state_machine'.output_states[outputs_dict["v"] + 1])
             => last_call' = "force_output"
          /\ (state_machine'.output_states[outputs_dict["w"] + 1] #
                 state_machine.output_states[outputs_dict["w"] + 1])
             => \/ last_call' = "force_output"
                \/ state_machine'.current_state = sm.states["rewardR"]]_vars

\* Lin was processed in wait on the freshly loaded scenario: the machine is
\* in rewardL with ValveL switched on, ValveR off and the timer pending
C28_Witness ==
    /\ RewardRunning
    /\ last_call = "process_input"
    /\ state_machine.current_state = sm.states["rewardL"]
    /\ emitted = <<eventProcessed(Lin, sm.states["rewardL"]),
                   outputChanged(outputs_dict["v"], TRUE),
                   stateChanged(sm.states["rewardL"])>>
    /\ state_machine.output_states = <<TRUE, FALSE>>
    /\ state_machine.state_timer_for = Some(sm.states["rewardL"])

(***************************************************************************)
(* START and END between trials (Spec)                                     *)
(***************************************************************************)
\* C29: when a running machine configured from a builder matrix is put into
\* state 0 (START) by force_state(0), START's zero-duration timer is armed,
\* and its expiry, when no other event intervenes, moves the machine to
\* state 1, the first user-defined state; also when the template was
\* rebuilt with reset_transitions() and add_state calls before it was
\* loaded.
C29_StartAutoAdvances ==
    [][Running
       => /\ (state_machine.current_state # 0 /\ force_state_step(0))
             => /\ state_machine'.current_state = 0
                /\ state_machine'.state_timers[1][1] = 0
                /\ state_machine'.state_timer_for = Some(0)
          /\ (/\ state_machine.current_state = 0
              /\ state_machine.state_timer_for = Some(0)
              /\ StateTimerExpired)
             => state_machine'.current_state = 1]_vars


\* the index of the END state of the loaded template
END_state == sm.states["END"]

\* C30: in a template whose user never adds a state named END, the row of
\* END is all self-loops and its timer is infinite, so a running machine
\* that is in END stays in END under every input event and processes no
\* timer expiry there; force_state is what moves it out.
C30_EndIsParking ==
    [][(Running /\ state_machine.current_state = END_state)
       => /\ state_machine.state_matrix[1][END_state + 1]
                = Repeat(n_input_events, END_state)
          /\ state_machine.state_timers[1][END_state + 1] = INFINITE_TIME
          /\ Call_process_input => state_machine'.current_state = END_state
          /\ ~StateTimerExpired]_vars


(***************************************************************************)
(* Extra timers of the builder (SpecExtraBuilder)                          *)
(***************************************************************************)
\* C27: adding an extra timer once a state has been added fails with an
\* error and leaves the builder, its extra timers and every row of its
\* matrix, as it was.
C27_ExtraTimerBeforeStates ==
    [][(Len(sm.state_matrix) > 1 /\ Call_add_extratimer)
       => /\ raised' # ""
          /\ sm' = sm]_vars


(***************************************************************************)
(* Extra timers of the runtime (SpecExtraTimers)                           *)
(***************************************************************************)
\* the punishment scenario is built with punish bound to wrong_poke and a
\* duration of 2, loaded and running
PunishRunning ==
    /\ Running
    /\ n_add = Len(PunishStates)
    /\ get_extra_triggers(sm) = <<sm.states["wrong_poke"]>>
    /\ get_extra_timers(sm) = <<2>>

\* the event column of punish was processed by the runtime
PunishProcessed ==
    \E i \in 1..Len(emitted) :
        /\ emitted[i].signal = "eventProcessed"
        /\ emitted[i].a = event_column(sm, Punish)

\* C26: once the running machine has entered the trigger state wrong_poke
\* of the extra timer punish, the event column of punish is processed,
\* whichever state the machine is in by then, unless the machine is stopped
\* first.
C26_ExtraTimerFires ==
    (/\ PunishRunning
     /\ state_machine.current_state = sm.states["wrong_poke"]
     /\ \E i \in 1..Len(emitted) : emitted[i] = stateChanged(sm.states["wrong_poke"]))
    ~> (PunishProcessed \/ ~state_machine.is_running)

(***************************************************************************)
(* The event columns (SpecBuilder)                                         *)
(***************************************************************************)
\* C31: Forced addresses no real matrix column: an add_state call whose
\* transitions dictionary names only the event Forced leaves the row of
\* its state the default row, every column 0..n_events-1 a self-loop.
C31_ForcedNoColumn ==
    [][\A name \in UserNames, a \in TimerOutputArgs, target \in Names :
           (/\ Call_add_state
            /\ sm' = add_state(sm, name, a[1], << <<Forced, target>> >>, a[2], a[3], a[4]))
           => ListGet(sm'.state_matrix, sm'.states[name])
                  = make_default_row(sm', sm'.states[name])]_vars

\* the number of declared input channels and of extra timers
n_inputs == Cardinality(DOMAIN inputs_dict)
n_extra_timers == Len(sm.extra_timers_names)

\* the real event names of the builder: the core ones and one per extra timer
RealEventNames ==
    (EventNames \ {Forced}) \cup {<<sm.extra_timers_names[j], "">> : j \in 1..n_extra_timers}

\* C32: with n input channels and k extra timers, channel i has its in
\* event at column 2i and its out event at 2i+1, Tup is column 2n, which
\* get_timer_event_index returns, the j-th extra timer (from 0) has column
\* 2n+1+j, the real event names have pairwise distinct columns, and every
\* row of the matrix has exactly 2n+1+k columns.
C32_EventColumns ==
    /\ \A key \in DOMAIN inputs_dict :
          /\ event_column(sm, <<key, "in">>) = 2 * inputs_dict[key]
          /\ event_column(sm, <<key, "out">>) = 2 * inputs_dict[key] + 1
    /\ event_column(sm, Tup) = 2 * n_inputs
    /\ get_timer_event_index(sm) = 2 * n_inputs
    /\ \A j \in 1..n_extra_timers :
          event_column(sm, <<sm.extra_timers_names[j], "">>) = 2 * n_inputs + 1 + (j - 1)
    /\ \A e1, e2 \in RealEventNames :
          event_column(sm, e1) = event_column(sm, e2) => e1 = e2
    /\ \A s \in 1..Len(sm.state_matrix) :
          Len(sm.state_matrix[s]) = 2 * n_inputs + 1 + n_extra_timers

(***************************************************************************)
(* The order of the notifications (SpecNotify)                             *)
(***************************************************************************)
\* outputChanged for each channel from c on whose directive in state s
\* differs from the value held, in ascending channel order
RECURSIVE FlippedFrom(_, _)
FlippedFrom(s, c) ==
    IF c >= state_machine.num_outputs THEN <<>>
    ELSE LET directive == state_machine.state_outputs[1][s + 1][c + 1]
             held == state_machine.output_states[c + 1]
         IN  (IF directive = 1 /\ ~held THEN <<outputChanged(c, TRUE)>>
              ELSE IF directive = 0 /\ held THEN <<outputChanged(c, FALSE)>>
              ELSE <<>>) \o FlippedFrom(s, c + 1)

\* integerOutput for state s when its integer code is set and nonzero
IntegerOutputOf(s) ==
    IF state_machine.integer_outputs # None /\ state_machine.integer_outputs[1][s + 1] # 0
    THEN <<integerOutput(state_machine.integer_outputs[1][s + 1])>>
    ELSE <<>>

\* event e is processed by process_input or, if it is the timer event, by
\* the expiry of the state timer
Processes(e) ==
    \/ process_input_step(e)
    \/ e = state_machine.timer_event_index[1] /\ StateTimerExpired

\* C33: a transition caused by process_input or a timer expiry emits
\* eventProcessed first, then outputChanged for each flipped channel in
\* ascending channel order, then integerOutput if the new state's integer
\* code is nonzero, and stateChanged last, and it ends with the new state's
\* timer armed if finite and no other timer pending; a self-loop emits
\* eventProcessed only.
C33_NotificationOrder ==
    [][\A e \in 0..(n_input_events - 1) :
           (Running /\ Processes(e))
           => LET next == MatrixEntry(state_machine.current_state, e)
              IN  IF next = state_machine.current_state
                  THEN emitted' = <<eventProcessed(e, next)>>
                  ELSE /\ emitted' = <<eventProcessed(e, next)>>
                                        \o FlippedFrom(next, 0)
                                        \o IntegerOutputOf(next)
                                        \o <<stateChanged(next)>>
                       /\ state_machine'.current_state = next
                       /\ state_machine'.state_timer_for
                              = IF FiniteTimer(next)
                                THEN Some(next) ELSE None]_vars

\* an input event moved the machine to a state with a nonzero integer code
\* that switches both outputs: the four kinds of notification, in order
C33_Witness ==
    /\ Running
    /\ last_call = "process_input"
    /\ Len(emitted) = 5
    /\ emitted[1].signal = "eventProcessed"
    /\ emitted[2] = outputChanged(0, FALSE)
    /\ emitted[3] = outputChanged(1, FALSE)
    /\ emitted[4] = integerOutput(7)
    /\ emitted[5] = stateChanged(state_machine.current_state)

(***************************************************************************)
(* Completion of a transition (SpecSetters)                                *)
(***************************************************************************)
\* this step is an operation that determines next as the state to enter:
\* process_input or a timer expiry by the matrix, force_state by its
\* argument
LooksUp(next) ==
    \/ \E e \in 0..(state_machine.num_inputs - 1) :
           /\ process_input_step(e)
           /\ next = MatrixEntry(state_machine.current_state, e)
    \/ /\ StateTimerExpired
       /\ next = MatrixEntry(state_machine.current_state, state_machine.timer_event_index[1])
    \/ \E i \in StateArgs :
           /\ force_state_step(i)
           /\ next = ForcedTarget(i)

\* C34: whenever process_input, a timer expiry or force_state on a running
\* machine has determined a next state different from the current one, the
\* operation ends without an exception, with current_state equal to that
\* state, stateChanged for it emitted last and its timer armed iff finite,
\* in every configuration the setters can produce.
C34_TransitionCompletes ==
    [][\A next \in 0..(state_machine.num_states - 1) :
           (Running /\ next # state_machine.current_state /\ LooksUp(next))
           => /\ raised' = ""
              /\ state_machine'.current_state = next
              /\ emitted' # <<>>
              /\ emitted'[Len(emitted')] = stateChanged(next)
              /\ state_machine'.state_timer_for
                     = IF FiniteTimer(next) THEN Some(next) ELSE None]_vars

(***************************************************************************)
(* set_state_timer (SpecControl)                                           *)
(***************************************************************************)
\* C35: set_state_timer(s, d) on a configured machine sets the duration of
\* state s to d; when s is the current state of a running machine the
\* pending expiry is replaced by one armed for d, and when d is infinite no
\* expiry remains pending; when s is not the current state or the machine
\* is not running, the pending timer is untouched.
C35_SetStateTimer ==
    [][\A s \in 0..(state_machine.num_states - 1), d \in TimerValues :
           (is_configured(state_machine) /\ set_state_timer_step(s, d))
           => /\ raised' = ""
              /\ state_machine'.state_timers[1][s + 1] = d
              /\ IF s = state_machine.current_state /\ state_machine.is_running
                 THEN IF d # INFINITE_TIME
                      THEN /\ state_machine'.state_timer_active
                           /\ state_machine'.state_timer_for = Some(s)
                      ELSE /\ ~state_machine'.state_timer_active
                           /\ state_machine'.state_timer_for = None
                 ELSE /\ state_machine'.state_timer_active
                             = state_machine.state_timer_active
                      /\ state_machine'.state_timer_for = state_machine.state_timer_for]_vars

(***************************************************************************)
(* The event log (SpecControl)                                             *)
(***************************************************************************)
\* C36: every stateChanged(s) is preceded, among the signals of the same
\* operation, by exactly one eventProcessed whose resulting state is s,
\* whether the transition came from an input event, a timer expiry,
\* force_state or the forceStateTransition signal.
C36_EventLogComplete ==
    [][\A i \in 1..Len(emitted') :
           emitted'[i].signal = "stateChanged"
           => Cardinality({j \in 1..(i - 1) :
                              /\ emitted'[j].signal = "eventProcessed"
                              /\ emitted'[j].b = emitted'[i].a}) = 1]_vars

(***************************************************************************)
(* Self-loops and the state timer (SpecControl)                            *)
(***************************************************************************)
\* C37: an input event whose target is the current state leaves the state
\* timer as it is, pending or not; a timer expiry whose target is the
\* current state leaves no timer pending; and while the machine stays in a
\* state whose timer is not pending, only set_state_timer makes it pending
\* again.
C37_SelfLoopKeepsTimer ==
    [][/\ \A e \in EventColumns :
             (/\ Running
              /\ MatrixEntry(state_machine.current_state, e) = state_machine.current_state
              /\ process_input_step(e))
             => /\ state_machine'.current_state = state_machine.current_state
                /\ state_machine'.state_timer_active = state_machine.state_timer_active
                /\ state_machine'.state_timer_for = state_machine.state_timer_for
       /\ (/\ Running
           /\ MatrixEntry(state_machine.current_state, state_machine.timer_event_index[1])
                 = state_machine.current_state
           /\ StateTimerExpired)
          => /\ state_machine'.current_state = state_machine.current_state
             /\ ~state_machine'.state_timer_active
             /\ state_machine'.state_timer_for = None
       /\ (/\ ~state_machine.state_timer_active
           /\ state_machine'.state_timer_active
           /\ state_machine'.current_state = state_machine.current_state)
          => last_call' = "set_state_timer"]_vars

\* the finite timer of the current state expired and looped back: the event
\* was processed and no timer is pending
C37_Witness ==
    /\ Running
    /\ last_call = "state_timer_expired"
    /\ emitted = <<eventProcessed(state_machine.timer_event_index[1],
                                  state_machine.current_state)>>
    /\ FiniteTimer(state_machine.current_state)
    /\ ~state_machine.state_timer_active

(***************************************************************************)
(* The configuration of the runtime (SpecArrays)                           *)
(***************************************************************************)
\* C38: in every reachable state of the runtime, is_running implies that
\* the machine is configured, that 0 <= current_state < num_states, and
\* that every entry of state_matrix is in 0..num_states-1.
C38_Lifecycle ==
    state_machine.is_running
    => /\ is_configured(state_machine)
       /\ 0 <= state_machine.current_state
       /\ state_machine.current_state < state_machine.num_states
       /\ \A s \in 1..Len(state_machine.state_matrix[1]) :
              \A c \in 1..Len(state_machine.state_matrix[1][s]) :
                  state_machine.state_matrix[1][s][c] \in 0..(state_machine.num_states - 1)

\* C39: when set_state_matrix, set_state_outputs or set_state_timers raises
\* a validation error, state_matrix, num_states, num_inputs,
\* timer_event_index, state_outputs, num_outputs, state_timers and
\* output_states keep the values they had before the call.
C39_RejectedCallChangesNothing ==
    [][((Array_set_state_matrix \/ Array_set_state_outputs \/ Array_set_state_timers)
        /\ raised' = "ValueError")
       => /\ state_machine'.state_matrix = state_machine.state_matrix
          /\ state_machine'.num_states = state_machine.num_states
          /\ state_machine'.num_inputs = state_machine.num_inputs
          /\ state_machine'.timer_event_index = state_machine.timer_event_index
          /\ state_machine'.state_outputs = state_machine.state_outputs
          /\ state_machine'.num_outputs = state_machine.num_outputs
          /\ state_machine'.state_timers = state_machine.state_timers
          /\ state_machine'.output_states = state_machine.output_states]_vars

(***************************************************************************)
(* add_state calls that raise (SpecRaising)                                *)
(***************************************************************************)
\* C40: when add_state raises because its transitions name an unknown
\* event, its outputsOn or outputsOff an unknown output, or its trigger an
\* unknown extra timer, the builder is left exactly as before the call.
C40_FailedAddStateChangesNothing ==
    [][(Raising_add_state /\ raised' # "") => sm' = sm]_vars
=============================================================================
